---- MODULE Spec2Model ----
(***************************************************************************)
(* Model of the scheduling and allocation engine of posting_anton:         *)
(* app/services/scheduler.py (ContentScheduler.generate_schedule and its   *)
(* helpers).  Times are minutes counted from 00:00 Moscow time of the day  *)
(* on which the run starts.  Text (categories, brands, folder names) is a  *)
(* sequence of characters so that normalisation is computed; a Cyrillic    *)
(* letter is written as a token: "YO"/"yo" for U+0401/U+0451, "ye" for     *)
(* U+0435, "cv" "ci" "cd" "co" for the other letters of the anchor name.   *)
(* The host of the engine (the triggers of a run in app/main.py and        *)
(* app/services/dynamic_scheduler.py, persistence and dispatch in          *)
(* app/worker.py and app/background_publisher.py) is a second state        *)
(* machine over its own variables.                                         *)
(***************************************************************************)
EXTENDS Integers, Sequences, FiniteSets, TLC

(***************************************************************************)
(* Bounds of the model                                                     *)
(***************************************************************************)
\* daysToGenerate is drawn from 0..MaxDays
MaxDays == 2
\* the quota resolver alone: quotas 0..MaxQuota, published counts 0..MaxPublished,
\* MaxSelections successive selections (and successive calls of the slot allocator)
MaxQuota == 3
MaxPublished == 1
MaxSelections == 3
\* the host: at most MaxRuns executions of generate_daily_schedule are started
MaxRuns == 2
\* the completion webhooks the transport sends
MaxWebhooks == 2

(***************************************************************************)
(* Program constants                                                       *)
(***************************************************************************)
None == -1
MskOffset == 180
MinutesPerDay == 1440
DefaultStartHour == 8
DefaultEndHour == 23
DefaultMinInterval == 45
LateStartShift == 10
SlotTries == 15
RetrySpread == 60
JitterMin == 2
JitterMax == 5
AttemptFactor == 5
DefaultUnknownLimit == 1
KnownPlatforms == {"instagram", "tiktok", "youtube"}

(***************************************************************************)
(* Text helpers                                                            *)
(***************************************************************************)
Lower(c) ==
    CASE c = "A" -> "a"
      [] c = "B" -> "b"
      [] c = "F" -> "f"
      [] c = "K" -> "k"
      [] c = "N" -> "n"
      [] c = "S" -> "s"
      [] c = "V" -> "v"
      [] c = "YO" -> "yo"
      [] OTHER -> c

MapSeq(s, Op(_)) == [i \in 1..Len(s) |-> Op(s[i])]

LowerText(s) == MapSeq(s, Lower)

RemoveChar(s, ch) == SelectSeq(s, LAMBDA c : c # ch)

ReplaceYo(s) == MapSeq(s, LAMBDA c : IF c = "yo" THEN "ye" ELSE c)

\* str.strip(): the only whitespace of the alphabet is " "
RECURSIVE StripLeft(_)
StripLeft(s) == IF s # << >> /\ Head(s) = " " THEN StripLeft(Tail(s)) ELSE s

RECURSIVE StripRight(_)
StripRight(s) ==
    IF s # << >> /\ s[Len(s)] = " " THEN StripRight(SubSeq(s, 1, Len(s) - 1)) ELSE s

Strip(s) == StripRight(StripLeft(s))

\* s.split(ch)[0]
SplitFirst(s, ch) ==
    IF \E i \in 1..Len(s) : s[i] = ch
    THEN SubSeq(s, 1, (CHOOSE i \in 1..Len(s) : s[i] = ch /\ \A j \in 1..(i - 1) : s[j] # ch) - 1)
    ELSE s

Contains(s, ch) == \E i \in 1..Len(s) : s[i] = ch

\* re.search(pattern, text, re.IGNORECASE) for a pattern of literal characters
IsSubstringCI(pat, text) ==
    \E i \in 0..(Len(text) - Len(pat)) :
        \A j \in 1..Len(pat) : Lower(text[i + j]) = Lower(pat[j])

\* a pattern that re.compile rejects
InvalidRegex == <<"[">>

RegexSearch(regex, text) ==
    /\ regex # << >>
    /\ regex # InvalidRegex
    /\ IsSubstringCI(regex, text)

UNKNOWN == <<"u", "n", "k", "n", "o", "w", "n">>
AnchorNames == { <<"v", "i", "d", "e", "o">>, <<"cv", "ci", "cd", "ye", "co">> }
DiskMarker == <<"d", "i", "s", "k", ":">>

\* ContentScheduler.normalize
normalize(text) == Strip(RemoveChar(ReplaceYo(LowerText(text)), " "))

\* the normalisation of has_ai_client
ClientNormalize(text) == RemoveChar(RemoveChar(LowerText(text), " "), "-")


(***************************************************************************)
(* State                                                                   *)
(***************************************************************************)
VARIABLES
    \* arguments of the call, configuration and database (worker.py:163-167)
    config, videos, profiles, occupied_slots, existing_counts,
    check_db_duplicates, force_limit, now_msk, brand_stats, posting_history,
    \* position and locals of generate_schedule
    pc, active_profiles, posted_history_set, schedule, videos_by_theme,
    profile_slots, day_index, current_day_start, current_day_end,
    daily_profiles, profile_idx, profile_counts, last_brand_used_per_theme,
    planned_counts, needed_posts, total_needed, attempts, max_profile_attempts,
    \* fields of the ContentScheduler object
    used_video_md5s, used_video_profile_pairs,
    \* observation: the last call of select_brand_by_quota, the last weight computed
    \* for each (category, brand), the last call of find_safe_slot, and the value the
    \* occupied_slots argument had when generate_schedule was called
    select_call, weight_log, slot_call, caller_slots,
    \* the database: the number of queries it answers before it becomes unreachable
    \* (None: it answers all), and the number of queries the run has sent
    db_answers, db_queries,
    \* the host: position and schedule of every execution of generate_daily_schedule,
    \* the clock (UTC minutes) and the UTC offset of the server's local time, the minute
    \* the cron loop last looked at and the warnings it logged, the PostingHistory rows
    \* written, the post_content tasks created, and what the transport was handed
    run_pos, run_slot, host_now, server_offset, last_run_minute, cron_warnings,
    history_rows, post_tasks, transport,
    \* generate_daily_schedule around the call: the profile list and the scheduled posts
    \* the transport answers with, the worker's active_profiles after validation and the
    \* PostingHistory rows the run wrote
    api_profiles, scheduled_posts, validated_profiles, worker_rows,
    \* deliveries: the webhook requests being handled and the number received so far,
    \* the check_cleanup tasks created and the videos moved to the archive
    webhooks, webhook_count, cleanup_tasks, archived

deliveryVars == <<webhooks, webhook_count, cleanup_tasks, archived>>

hostVars == <<run_pos, run_slot, host_now, server_offset, last_run_minute, cron_warnings,
              history_rows, post_tasks, transport, deliveryVars>>

workerVars == <<api_profiles, scheduled_posts, validated_profiles, worker_rows>>

callVars == <<config, videos, existing_counts, check_db_duplicates, force_limit,
              now_msk, brand_stats, posting_history, caller_slots, db_answers, workerVars>>

\* what generate_schedule never writes
inputVars == <<callVars, hostVars>>

runVars == <<pc, active_profiles, posted_history_set, schedule, videos_by_theme,
             profile_slots, day_index, current_day_start, current_day_end,
             daily_profiles, profile_idx, profile_counts, last_brand_used_per_theme,
             planned_counts, needed_posts, total_needed, attempts, max_profile_attempts,
             used_video_md5s, used_video_profile_pairs, select_call, weight_log,
             slot_call, db_queries>>

vars == <<inputVars, profiles, occupied_slots, runVars>>

engineVars == <<callVars, profiles, occupied_slots, runVars>>

(***************************************************************************)
(* Generic helpers                                                         *)
(***************************************************************************)
Range(s) == {s[i] : i \in 1..Len(s)}

\* dict.get(key, default)
Get(f, k, default) == IF k \in DOMAIN f THEN f[k] ELSE default

\* dict[key] = value
Put(f, k, v) == [x \in (DOMAIN f) \cup {k} |-> IF x = k THEN v ELSE f[x]]

EmptyDict == [x \in {} |-> 0]

Abs(x) == IF x < 0 THEN 0 - x ELSE x

Max(a, b) == IF a >= b THEN a ELSE b

\* list.remove(x): drops the first element equal to x
RemoveFirst(s, x) ==
    IF \E i \in 1..Len(s) : s[i] = x
    THEN LET k == CHOOSE i \in 1..Len(s) : s[i] = x /\ \A j \in 1..(i - 1) : s[j] # x
         IN SubSeq(s, 1, k - 1) \o SubSeq(s, k + 1, Len(s))
    ELSE s

\* all orders of a list (random.shuffle)
Shuffles(s) ==
    {q \in [1..Len(s) -> Range(s)] :
        \E f \in [1..Len(s) -> 1..Len(s)] :
            /\ \A i, j \in 1..Len(s) : i # j => f[i] # f[j]
            /\ \A i \in 1..Len(s) : q[i] = s[f[i]]}

(***************************************************************************)
(* Path classifier                                                         *)
(***************************************************************************)
\* folder names used by the catalog
SegVideo == <<"V", "i", "d", "e", "o">>
SegEditor == <<"e", "d">>
SegShoes == <<"S", "h">>
SegBags == <<"b", "g">>
SegA == <<"A">>
SegB == <<"B">>
SegX == <<"x">>
SegFile == <<"f", ".", "m">>

\* path.replace("\\", "/").split("/") of every path of the catalog
PathSegments ==
    [p \in {"", "p_a1", "p_a2", "p_a3", "p_b1", "p_x1", "p_g1", "p_n1", "p_y1", "p_f1",
            "p_s1", "p_w1"} |->
        CASE p = "p_a1" -> <<DiskMarker, SegVideo, SegEditor, SegShoes, SegA, SegFile>>
          [] p = "p_a2" -> <<DiskMarker, SegVideo, SegEditor, SegShoes, SegA, <<"2">>, SegFile>>
          [] p = "p_a3" -> <<SegVideo, SegEditor, SegShoes, <<"a", " ">>, <<"3">>, SegFile>>
          [] p = "p_b1" -> <<DiskMarker, SegVideo, SegEditor, SegShoes, SegB, SegFile>>
          [] p = "p_x1" -> <<DiskMarker, SegVideo, SegEditor, SegShoes, SegX, SegFile>>
          [] p = "p_g1" -> <<DiskMarker, SegVideo, SegEditor, SegBags, SegA, SegFile>>
          [] p = "p_n1" -> <<DiskMarker, SegEditor, SegShoes, SegA, SegFile>>
          [] p = "p_y1" -> <<DiskMarker, SegVideo, SegEditor, SegShoes, <<"YO">>, SegFile>>
          [] p = "p_f1" -> <<DiskMarker, SegVideo, SegEditor, SegShoes, SegFile>>
          [] p = "p_s1" -> <<DiskMarker, SegVideo, SegEditor, SegA, SegX, SegFile>>
          [] p = "p_w1" -> <<DiskMarker, SegVideo, SegEditor, <<"F", "w", " ", "(", "x", ")">>,
                             SegB, SegFile>>
          [] OTHER -> << >>]

PathParts(path) == SelectSeq(PathSegments[path], LAMBDA p : p # << >> /\ p # DiskMarker)

\* index of the first anchor folder, 0 when there is none
AnchorIndex(parts) ==
    IF \E i \in 1..Len(parts) : LowerText(parts[i]) \in AnchorNames
    THEN CHOOSE i \in 1..Len(parts) :
            /\ LowerText(parts[i]) \in AnchorNames
            /\ \A j \in 1..(i - 1) : LowerText(parts[j]) \notin AnchorNames
    ELSE 0

\* first entry of the alias table that raw matches, 0 when there is none
AliasIndex(aliases, raw) ==
    LET hit(i) == \/ raw = normalize(aliases[i].canonical)
                  \/ \E k \in 1..Len(aliases[i].aliases) : normalize(aliases[i].aliases[k]) = raw
    IN IF \E i \in 1..Len(aliases) : hit(i)
       THEN CHOOSE i \in 1..Len(aliases) : hit(i) /\ \A j \in 1..(i - 1) : ~hit(j)
       ELSE 0

\* variant: the alias table is not consulted
normalize_theme_key_raw(cfg, text) == normalize(text)

normalize_theme_key(cfg, text) ==
    LET raw == normalize(text)
        k == AliasIndex(cfg.themeAliases, raw)
    IN IF k # 0 THEN cfg.themeAliases[k].canonical ELSE raw

extract_theme(cfg, path) ==
    LET parts == PathParts(path)
        v == AnchorIndex(parts)
        theme_part == IF v # 0 /\ v + 2 <= Len(parts)
                      THEN Strip(SplitFirst(parts[v + 2], "("))
                      ELSE << >>
        k == AliasIndex(cfg.themeAliases, normalize(theme_part))
    IN IF theme_part = << >> THEN UNKNOWN
       ELSE IF k # 0 THEN cfg.themeAliases[k].canonical
       ELSE normalize_theme_key(cfg, theme_part)

CleanCandidate(candidate) == Strip(SplitFirst(SplitFirst(candidate, "*"), "("))

\* first client matching the candidate folder by name or regex, 0 when none
ClientIndex(clients, clean) ==
    LET hit(i) == \/ normalize(clients[i].name) = normalize(clean)
                  \/ RegexSearch(clients[i].regex, clean)
    IN IF \E i \in 1..Len(clients) : hit(i)
       THEN CHOOSE i \in 1..Len(clients) : hit(i) /\ \A j \in 1..(i - 1) : ~hit(j)
       ELSE 0

extract_brand(cfg, path) ==
    LET parts == PathParts(path)
        v == AnchorIndex(parts)
        candidate_parts ==
            IF v = 0 THEN << >>
            ELSE (IF v + 3 <= Len(parts) THEN <<parts[v + 3]>> ELSE << >>)
                 \o (IF v + 2 <= Len(parts) THEN <<parts[v + 2]>> ELSE << >>)
        matches(i) == /\ ~Contains(CleanCandidate(candidate_parts[i]), ".")
                      /\ ClientIndex(cfg.clients, CleanCandidate(candidate_parts[i])) # 0
    IN IF \E i \in 1..Len(candidate_parts) : matches(i)
       THEN LET i == CHOOSE i \in 1..Len(candidate_parts) :
                        matches(i) /\ \A j \in 1..(i - 1) : ~matches(j)
            IN normalize(cfg.clients[ClientIndex(cfg.clients, CleanCandidate(candidate_parts[i]))].name)
       ELSE IF candidate_parts # << >> THEN normalize(CleanCandidate(candidate_parts[1]))
       ELSE UNKNOWN

\* utils.extract_theme: the classifier of the worker (utils.py:38-53)
utils_extract_theme(cfg, path) ==
    LET parts == PathParts(path)
        v == AnchorIndex(parts)
        positional == IF v # 0 /\ v + 2 <= Len(parts) THEN CleanCandidate(parts[v + 2])
                      ELSE << >>
        theme_raw == IF positional = << >> /\ Len(parts) >= 3
                     THEN parts[Len(parts) - 2]
                     ELSE positional
    IN IF theme_raw # << >> THEN normalize_theme_key(cfg, theme_raw) ELSE UNKNOWN

\* utils.extract_brand (utils.py:7-21)
utils_extract_brand(path) ==
    LET parts == PathParts(path)
        v == AnchorIndex(parts)
        brand_raw == IF v # 0 /\ v + 3 <= Len(parts) /\ ~Contains(CleanCandidate(parts[v + 3]), ".")
                     THEN CleanCandidate(parts[v + 3])
                     ELSE << >>
    IN IF brand_raw # << >> THEN normalize(brand_raw) ELSE UNKNOWN

\* variant: a delivery counts twice
increment_brand_stats_twice(cfg, stats, video_path) ==
    LET category == utils_extract_theme(cfg, video_path)
        brand == utils_extract_brand(video_path)
        row == Get(stats, category, EmptyDict)
    IN Put(stats, category, Put(row, brand, Get(row, brand, 0) + 2))

\* worker.increment_brand_stats: the row of the item's (category, brand) gets one more
\* published post; the row is created when there is none (worker.py:418-440)
increment_brand_stats(cfg, stats, video_path) ==
    LET category == utils_extract_theme(cfg, video_path)
        brand == utils_extract_brand(video_path)
        row == Get(stats, category, EmptyDict)
    IN Put(stats, category, Put(row, brand, Get(row, brand, 0) + 1))

\* variant: a grouping that keeps every classified item
has_ai_client_any(clients, brand_name) == TRUE

has_ai_client(clients, brand_name) ==
    \E i \in 1..Len(clients) :
        \/ ClientNormalize(clients[i].name) = ClientNormalize(brand_name)
        \/ RegexSearch(clients[i].regex, brand_name)

\* groups[theme][brand].append(v); a dict keeps its keys in insertion order
AddToGroups(groups, theme, brand, v) ==
    LET brands == Get(groups, theme, << >>)
        has == \E i \in 1..Len(brands) : brands[i].brand = brand
        added == IF has
                 THEN [i \in 1..Len(brands) |->
                          IF brands[i].brand = brand
                          THEN [brands[i] EXCEPT !.vids = Append(@, v)]
                          ELSE brands[i]]
                 ELSE Append(brands, [brand |-> brand, vids |-> <<v>>])
    IN Put(groups, theme, added)

RECURSIVE GroupFold(_, _, _, _)
GroupFold(cfg, vids, i, groups) ==
    IF i > Len(vids) THEN groups
    ELSE LET path == vids[i].path
             theme == extract_theme(cfg, path)
             brand == extract_brand(cfg, path)
         IN IF path = "" \/ ~has_ai_client(cfg.clients, brand)
            THEN GroupFold(cfg, vids, i + 1, groups)
            ELSE GroupFold(cfg, vids, i + 1, AddToGroups(groups, theme, brand, vids[i]))


group_videos_by_theme(cfg, vids) == GroupFold(cfg, vids, 1, EmptyDict)

(***************************************************************************)
(* Fairness quota resolver                                                 *)
(***************************************************************************)
\* variant: a scheduler built without a database session
db_session_none == FALSE

\* worker.py builds the scheduler with a database session
db_session == TRUE

round_robin(brands, last) ==
    IF last = << >> \/ last \notin Range(brands) THEN brands[1]
    ELSE LET idx == CHOOSE i \in 1..Len(brands) :
                        brands[i] = last /\ \A j \in 1..(i - 1) : brands[j] # last
         IN brands[(idx % Len(brands)) + 1]

\* configured quota of a brand: brandQuotas.get(category, {}).get(brand, 0)
QuotaOf(cfg, category, brand) == Get(Get(cfg.brandQuotas, category, EmptyDict), brand, 0)

\* published_count of the BrandStats row of this month, 0 without a row
PublishedOf(stats, category, brand) == Get(Get(stats, category, EmptyDict), brand, 0)

BrandWeight(cfg, stats, category, brand, planned) ==
    Max(0, QuotaOf(cfg, category, brand) - PublishedOf(stats, category, brand)
           - Get(planned, brand, 0))

\* variant: the sort is ascending
RECURSIVE SortByWeightAsc(_, _)
SortByWeightAsc(brands, w) ==
    IF brands = << >> THEN << >>
    ELSE LET k == CHOOSE i \in 1..Len(brands) :
                    /\ \A j \in 1..Len(brands) : w[brands[j]] >= w[brands[i]]
                    /\ \A j \in 1..(i - 1) : w[brands[j]] > w[brands[i]]
         IN <<brands[k]>> \o
            SortByWeightAsc(SubSeq(brands, 1, k - 1) \o SubSeq(brands, k + 1, Len(brands)), w)

\* sorted(brands, key=weight, reverse=True): a stable sort
RECURSIVE SortByWeightDesc(_, _)
SortByWeightDesc(brands, w) ==
    IF brands = << >> THEN << >>
    ELSE LET k == CHOOSE i \in 1..Len(brands) :
                    /\ \A j \in 1..Len(brands) : w[brands[j]] <= w[brands[i]]
                    /\ \A j \in 1..(i - 1) : w[brands[j]] < w[brands[i]]
         IN <<brands[k]>> \o
            SortByWeightDesc(SubSeq(brands, 1, k - 1) \o SubSeq(brands, k + 1, Len(brands)), w)

\* the weights select_brand_by_quota computes for the candidates
SelectWeights(cfg, stats, category, available_brands, planned) ==
    [b \in Range(available_brands) |-> BrandWeight(cfg, stats, category, b, planned)]

\* the database does not answer the next query: session.execute raises
DbDown == db_session /\ db_answers # None /\ db_queries >= db_answers

\* queries sent once the next one is sent
QueryCount == IF db_session THEN db_queries + 1 ELSE db_queries

\* the query raises, or a quota stored as null makes "quota - published" raise TypeError
SelectRaises(cfg, category, available_brands) ==
    \/ DbDown
    \/ db_session /\ \E b \in Range(available_brands) : QuotaOf(cfg, category, b) = None

\* variant: the first-ranked candidate is returned whatever the last brand was
select_brand_no_tiebreak(cfg, stats, category, available_brands, last_brand, planned) ==
    IF ~db_session THEN round_robin(available_brands, last_brand)
    ELSE LET weights == SelectWeights(cfg, stats, category, available_brands, planned)
             sorted_brands == SortByWeightDesc(available_brands, weights)
         IN IF weights[sorted_brands[1]] > 0
            THEN sorted_brands[1]
            ELSE round_robin(available_brands, last_brand)

select_brand_by_quota(cfg, stats, category, available_brands, last_brand, planned) ==
    IF ~db_session THEN round_robin(available_brands, last_brand)
    ELSE LET weights == SelectWeights(cfg, stats, category, available_brands, planned)
             sorted_brands == SortByWeightDesc(available_brands, weights)
         IN IF weights[sorted_brands[1]] > 0
            THEN IF /\ Len(sorted_brands) > 1
                    /\ weights[sorted_brands[1]] = weights[sorted_brands[2]]
                    /\ last_brand = sorted_brands[1]
                 THEN sorted_brands[2]
                 ELSE sorted_brands[1]
            ELSE round_robin(available_brands, last_brand)

(***************************************************************************)
(* Slot allocator                                                          *)
(***************************************************************************)
\* minIntervalMinutes or 45
MinGap(cfg) == IF cfg.minIntervalMinutes = 0 THEN DefaultMinInterval ELSE cfg.minIntervalMinutes

\* the values random.randint(0, total) is drawn from: the two ends of its range
DrawOffsets(total) == {0, total}

\* the times get_random_time_window(start, end) can return
get_random_time_window(start, end) ==
    IF end - start <= 0 THEN {start} ELSE {start + r : r \in DrawOffsets(end - start)}

\* the values random.randint(min_minutes, min_minutes + 60) is drawn from: both ends
RetryOffsets(cfg) == {MinGap(cfg), MinGap(cfg) + RetrySpread}

\* variant: only the first slot of the list is compared
SlotConflictFirst(cfg, slots, candidate) ==
    slots # << >> /\ Abs(slots[1] - candidate) < MinGap(cfg)

SlotConflict(cfg, slots, candidate) ==
    \E i \in 1..Len(slots) : Abs(slots[i] - candidate) < MinGap(cfg)

\* the candidates that can follow a conflicting candidate
NextCandidates(cfg, candidate, day_start, day_end) ==
    UNION {IF candidate + o > day_end
           THEN get_random_time_window(day_start, day_end)
           ELSE {candidate + o} : o \in RetryOffsets(cfg)}

\* frontier: the candidates the loop can be testing after tested tests; an outcome is
\* the value returned and the number of candidates tested before returning
RECURSIVE SlotSearch(_, _, _, _, _, _, _, _)
SlotSearch(cfg, slots, frontier, tested, limit, day_start, day_end, found) ==
    IF frontier = {} THEN found
    ELSE IF tested = limit THEN found \cup {[result |-> None, tests |-> tested]}
    ELSE LET free == {c \in frontier : ~SlotConflict(cfg, slots, c)}
             next == UNION {NextCandidates(cfg, c, day_start, day_end) : c \in frontier \ free}
         IN SlotSearch(cfg, slots, next, tested + 1, limit, day_start, day_end,
                       found \cup {[result |-> c, tests |-> tested + 1] : c \in free})

\* variant: one more candidate is tested before giving up
SlotOutcomesOneMore(cfg, slots, desired, day_start, day_end) ==
    SlotSearch(cfg, slots, {desired}, 0, SlotTries + 1, day_start, day_end, {})

\* the ways find_safe_slot can end: the value returned (None: all tests conflicted)
\* and the number of candidates tested
SlotOutcomes(cfg, slots, desired, day_start, day_end) ==
    SlotSearch(cfg, slots, {desired}, 0, SlotTries, day_start, day_end, {})

\* the results find_safe_slot can return
find_safe_slot(cfg, slots, desired, day_start, day_end) ==
    {o.result : o \in SlotOutcomes(cfg, slots, desired, day_start, day_end)}


(***************************************************************************)
(* Scheduling engine: generate_schedule                                    *)
(***************************************************************************)
StartHour == IF config.schedule.present THEN config.schedule.start_hour ELSE DefaultStartHour
EndHour == IF config.schedule.present THEN config.schedule.end_hour ELSE DefaultEndHour

\* daysToGenerate or 1
DaysToGenerate == IF config.daysToGenerate = 0 THEN 1 ELSE config.daysToGenerate

\* now_msk.replace(hour=start_hour, minute=0, ...)
StartDate == (now_msk \div MinutesPerDay) * MinutesPerDay + StartHour * 60

DayStart(d) ==
    LET s == StartDate + d * MinutesPerDay
    IN IF d = 0 /\ s < now_msk THEN now_msk + LateStartShift ELSE s

\* current_day_start.replace(hour=end_hour, minute=0, ...)
DayEnd(start) == (start \div MinutesPerDay) * MinutesPerDay + EndHour * 60

\* strftime("%Y-%m-%d") of a Moscow time: the number of its day
DateKey(t) == t \div MinutesPerDay

\* pl and pl.strip()
IsBlank(pl) == pl \in {"", " "}

ValidPlatforms(p) == SelectSeq(p.platforms, LAMBDA pl : ~IsBlank(pl))

\* variant: the enabled flag is not looked at
IsActiveIfPlatforms(p) == ValidPlatforms(p) # << >>

IsActive(p) == p.enabled /\ ValidPlatforms(p) # << >>

\* variant: an override of 0 is taken for an unset one
get_profile_limit_or(profile, platform) ==
    LET platform_limit == CASE platform = "instagram" -> profile.instagramLimit
                            [] platform = "tiktok" -> profile.tiktokLimit
                            [] platform = "youtube" -> profile.youtubeLimit
                            [] OTHER -> None
    IN IF force_limit # None THEN force_limit
       ELSE IF platform_limit \notin {None, 0} THEN platform_limit
       ELSE IF profile.limit \notin {None, 0} THEN profile.limit
       ELSE IF platform \in KnownPlatforms THEN config.limits[platform]
       ELSE DefaultUnknownLimit

\* variant: the deprecated limit field is consulted before the platform override
get_profile_limit_legacy(profile, platform) ==
    LET platform_limit == CASE platform = "instagram" -> profile.instagramLimit
                            [] platform = "tiktok" -> profile.tiktokLimit
                            [] platform = "youtube" -> profile.youtubeLimit
                            [] OTHER -> None
    IN IF force_limit # None THEN force_limit
       ELSE IF profile.limit # None THEN profile.limit
       ELSE IF platform_limit # None THEN platform_limit
       ELSE IF platform \in KnownPlatforms THEN config.limits[platform]
       ELSE DefaultUnknownLimit

get_profile_limit(profile, platform) ==
    LET platform_limit == CASE platform = "instagram" -> profile.instagramLimit
                            [] platform = "tiktok" -> profile.tiktokLimit
                            [] platform = "youtube" -> profile.youtubeLimit
                            [] OTHER -> None
    IN IF force_limit # None THEN force_limit
       ELSE IF platform_limit # None THEN platform_limit
       ELSE IF profile.limit # None THEN profile.limit
       ELSE IF platform \in KnownPlatforms THEN config.limits[platform]
       ELSE DefaultUnknownLimit

\* variant: the path alone identifies a video
VideoIdIsPath(v) == v.path

\* v.get("md5") or v.get("path")
VideoId(v) == IF v.md5 # "" THEN v.md5 ELSE v.path

\* start of the call: filter, history preload, classification (lines 51-130)
\* the history preload (lines 80-94) sends one query when there are active profiles
PreloadQueries == check_db_duplicates /\ db_session

Begin ==
    /\ pc = "start"
    /\ profiles' = [i \in 1..Len(profiles) |->
                       IF IsActive(profiles[i])
                       THEN [profiles[i] EXCEPT !.platforms = ValidPlatforms(profiles[i])]
                       ELSE profiles[i]]
    /\ active_profiles' = SelectSeq(profiles', LAMBDA p : IsActive(p))
    /\ IF active_profiles' = << >>
       THEN /\ pc' = "done"
            /\ UNCHANGED <<posted_history_set, videos_by_theme, profile_slots, db_queries>>
       ELSE /\ ~(PreloadQueries /\ DbDown)
            /\ pc' = "day"
            /\ db_queries' = IF PreloadQueries THEN QueryCount ELSE db_queries
            /\ posted_history_set' =
                  IF PreloadQueries
                  THEN {<<r.profile_username, r.video_path>> :
                           r \in {h \in posting_history :
                                     /\ \E i \in 1..Len(active_profiles') :
                                            active_profiles'[i].username = h.profile_username
                                     /\ h.status # "failed"}}
                  ELSE {}
            /\ videos_by_theme' = group_videos_by_theme(config, videos)
            /\ profile_slots' =
                  [u \in (DOMAIN occupied_slots)
                         \cup {active_profiles'[i].username : i \in 1..Len(active_profiles')} |->
                      Get(occupied_slots, u, << >>)]
    /\ schedule' = << >>
    /\ day_index' = 0
    /\ UNCHANGED <<inputVars, occupied_slots, current_day_start, current_day_end, daily_profiles,
                   profile_idx, profile_counts, last_brand_used_per_theme, planned_counts,
                   needed_posts, total_needed, attempts, max_profile_attempts,
                   used_video_md5s, used_video_profile_pairs, select_call, weight_log,
                   slot_call>>

\* the query of the history preload raises: the call ends in an exception
BeginRaises ==
    /\ pc = "start"
    /\ profiles' = [i \in 1..Len(profiles) |->
                       IF IsActive(profiles[i])
                       THEN [profiles[i] EXCEPT !.platforms = ValidPlatforms(profiles[i])]
                       ELSE profiles[i]]
    /\ active_profiles' = SelectSeq(profiles', LAMBDA p : IsActive(p))
    /\ active_profiles' # << >>
    /\ PreloadQueries /\ DbDown
    /\ db_queries' = QueryCount
    /\ pc' = "error"
    /\ UNCHANGED <<inputVars, occupied_slots, posted_history_set, schedule, videos_by_theme,
                   profile_slots, day_index, current_day_start, current_day_end,
                   daily_profiles, profile_idx, profile_counts, last_brand_used_per_theme,
                   planned_counts, needed_posts, total_needed, attempts,
                   max_profile_attempts, used_video_md5s, used_video_profile_pairs,
                   select_call, weight_log, slot_call>>

\* profile_counts of a day: zero, then overwritten from existing_counts
SeededCounts(date_key) ==
    [u \in {active_profiles[i].username : i \in 1..Len(active_profiles)} |->
        [pl \in KnownPlatforms |-> Get(existing_counts, <<date_key, u, pl>>, 0)]]

\* a day whose window is over is skipped (lines 133-140)
DaySkip ==
    /\ pc = "day"
    /\ day_index < DaysToGenerate
    /\ DayStart(day_index) >= DayEnd(DayStart(day_index))
    /\ day_index' = day_index + 1
    /\ UNCHANGED <<inputVars, db_queries, occupied_slots, profiles, pc, active_profiles,
                   posted_history_set, schedule,
                   videos_by_theme, profile_slots, current_day_start, current_day_end,
                   daily_profiles, profile_idx, profile_counts, last_brand_used_per_theme,
                   planned_counts, needed_posts, total_needed, attempts,
                   max_profile_attempts, used_video_md5s, used_video_profile_pairs,
                   select_call, weight_log, slot_call>>

\* start of a day pass (lines 133-187)
DayBegin ==
    /\ pc = "day"
    /\ day_index < DaysToGenerate
    /\ DayStart(day_index) < DayEnd(DayStart(day_index))
    /\ current_day_start' = DayStart(day_index)
    /\ current_day_end' = DayEnd(DayStart(day_index))
    /\ daily_profiles' \in Shuffles(active_profiles)
    /\ profile_counts' = SeededCounts(DateKey(DayStart(day_index)))
    /\ last_brand_used_per_theme' = EmptyDict
    /\ planned_counts' = EmptyDict
    /\ profile_idx' = 1
    /\ pc' = "profile"
    /\ UNCHANGED <<inputVars, db_queries, occupied_slots, profiles, active_profiles,
                   posted_history_set, schedule,
                   videos_by_theme, profile_slots, day_index, needed_posts, total_needed,
                   attempts, max_profile_attempts, used_video_md5s,
                   used_video_profile_pairs, select_call, weight_log, slot_call>>

\* the shortfall of a profile: needed_posts in insertion order (lines 193-202)
RECURSIVE NeededFold(_, _, _)
NeededFold(profile, i, acc) ==
    IF i > Len(profile.platforms) THEN acc
    ELSE LET pl == profile.platforms[i]
             limit == get_profile_limit(profile, pl)
             current_count == Get(profile_counts[profile.username], pl, 0)
             needed == limit - current_count
             posts == IF \E k \in 1..Len(acc.posts) : acc.posts[k].pl = pl
                      THEN [k \in 1..Len(acc.posts) |->
                               IF acc.posts[k].pl = pl
                               THEN [pl |-> pl, needed |-> needed]
                               ELSE acc.posts[k]]
                      ELSE Append(acc.posts, [pl |-> pl, needed |-> needed])
         IN IF current_count < limit
            THEN NeededFold(profile, i + 1, [posts |-> posts, total |-> acc.total + needed])
            ELSE NeededFold(profile, i + 1, acc)

\* next profile of the day (lines 191-210)
ProfileBegin ==
    /\ pc = "profile"
    /\ profile_idx <= Len(daily_profiles)
    /\ LET n == NeededFold(daily_profiles[profile_idx], 1, [posts |-> << >>, total |-> 0])
       IN /\ needed_posts' = n.posts
          /\ total_needed' = n.total
          /\ attempts' = 0
          /\ max_profile_attempts' = n.total * AttemptFactor
          /\ IF n.total = 0
             THEN pc' = "profile" /\ profile_idx' = profile_idx + 1
             ELSE pc' = "attempt" /\ profile_idx' = profile_idx
    /\ UNCHANGED <<inputVars, db_queries, occupied_slots, profiles, active_profiles,
                   posted_history_set, schedule,
                   videos_by_theme, profile_slots, day_index, current_day_start,
                   current_day_end, daily_profiles, profile_counts,
                   last_brand_used_per_theme, planned_counts, used_video_md5s,
                   used_video_profile_pairs, select_call, weight_log, slot_call>>

\* all profiles of the day were processed
DayEndStep ==
    /\ pc = "profile"
    /\ profile_idx > Len(daily_profiles)
    /\ pc' = "day"
    /\ day_index' = day_index + 1
    /\ UNCHANGED <<inputVars, db_queries, occupied_slots, profiles, active_profiles,
                   posted_history_set, schedule,
                   videos_by_theme, profile_slots, current_day_start, current_day_end,
                   daily_profiles, profile_idx, profile_counts, last_brand_used_per_theme,
                   planned_counts, needed_posts, total_needed, attempts,
                   max_profile_attempts, used_video_md5s, used_video_profile_pairs,
                   select_call, weight_log, slot_call>>

\* return schedule (line 341)
Return ==
    /\ pc = "day"
    /\ day_index >= DaysToGenerate
    /\ pc' = "done"
    /\ UNCHANGED <<inputVars, db_queries, occupied_slots, profiles, active_profiles,
                   posted_history_set, schedule,
                   videos_by_theme, profile_slots, day_index, current_day_start,
                   current_day_end, daily_profiles, profile_idx, profile_counts,
                   last_brand_used_per_theme, planned_counts, needed_posts, total_needed,
                   attempts, max_profile_attempts, used_video_md5s,
                   used_video_profile_pairs, select_call, weight_log, slot_call>>


(***************************************************************************)
(* One pass of the allocation loop of a profile (lines 212-336)            *)
(***************************************************************************)
CurProfile == daily_profiles[profile_idx]

LoopRuns == total_needed > 0 /\ attempts < max_profile_attempts

\* first platform of needed_posts that still needs posts, "" when none
TargetPl ==
    IF \E k \in 1..Len(needed_posts) : needed_posts[k].needed > 0
    THEN needed_posts[CHOOSE k \in 1..Len(needed_posts) :
                         /\ needed_posts[k].needed > 0
                         /\ \A j \in 1..(k - 1) : needed_posts[j].needed <= 0].pl
    ELSE ""

CanonicalTheme == normalize_theme_key(config, CurProfile.theme_key)

ThemeBrands == Get(videos_by_theme, CanonicalTheme, << >>)

AvailableBrands ==
    LET filled == SelectSeq(ThemeBrands, LAMBDA e : Len(e.vids) > 0)
    IN [i \in 1..Len(filled) |-> filled[i].brand]

LoopBreaks == TargetPl = "" \/ ThemeBrands = << >> \/ AvailableBrands = << >>

LastBrand == Get(last_brand_used_per_theme, CanonicalTheme, << >>)

SelectedBrand ==
    select_brand_by_quota(config, brand_stats, CanonicalTheme, AvailableBrands,
                          LastBrand, planned_counts)

BrandVideos ==
    LET k == CHOOSE i \in 1..Len(ThemeBrands) : ThemeBrands[i].brand = SelectedBrand
    IN ThemeBrands[k].vids

\* variant: the uniqueness check is left out
IsUniqueAlways(v) == TRUE

\* the uniqueness check (lines 255-265)
IsUnique(v) ==
    IF config.allowVideoReuse
    THEN <<VideoId(v), CurProfile.username>> \notin used_video_profile_pairs
    ELSE VideoId(v) \notin used_video_md5s

\* variant: the history check is left out
InHistoryNever(v) == FALSE

\* the history check (lines 267-270)
InHistory(v) ==
    check_db_duplicates /\ <<CurProfile.username, v.path>> \in posted_history_set

\* variant: the scan stops at any video that is not in the history
EligibleVideosUnchecked == {v \in Range(BrandVideos) : ~InHistory(v)}

\* the videos the shuffled scan can stop at
EligibleVideos == {v \in Range(BrandVideos) : IsUnique(v) /\ ~InHistory(v)}

\* variant: the selection is not entered in the ledger
AfterSelectUnplanned(theme, brands, selected) ==
    /\ attempts' = attempts + 1
    /\ last_brand_used_per_theme' = Put(last_brand_used_per_theme, theme, selected)
    /\ planned_counts' = planned_counts
    /\ select_call' = [category |-> theme,
                       available_brands |-> brands,
                       last_brand |-> LastBrand,
                       planned |-> planned_counts,
                       weights |-> SelectWeights(config, brand_stats, theme, brands,
                                                 planned_counts),
                       result |-> selected]
    /\ db_queries' = QueryCount
    /\ weight_log' = [k \in (DOMAIN weight_log) \cup {<<theme, b>> : b \in Range(brands)} |->
                         IF k[1] = theme /\ k[2] \in Range(brands)
                         THEN BrandWeight(config, brand_stats, theme, k[2], planned_counts)
                         ELSE weight_log[k]]

\* the state after the selection (lines 235-242), common to all outcomes
AfterSelect(theme, brands, selected) ==
    /\ attempts' = attempts + 1
    /\ last_brand_used_per_theme' = Put(last_brand_used_per_theme, theme, selected)
    /\ planned_counts' = Put(planned_counts, selected, Get(planned_counts, selected, 0) + 1)
    /\ select_call' = [category |-> theme,
                       available_brands |-> brands,
                       last_brand |-> LastBrand,
                       planned |-> planned_counts,
                       weights |-> SelectWeights(config, brand_stats, theme, brands,
                                                 planned_counts),
                       result |-> selected]
    /\ db_queries' = QueryCount
    /\ weight_log' = [k \in (DOMAIN weight_log) \cup {<<theme, b>> : b \in Range(brands)} |->
                         IF k[1] = theme /\ k[2] \in Range(brands)
                         THEN BrandWeight(config, brand_stats, theme, k[2], planned_counts)
                         ELSE weight_log[k]]

\* the while condition is false: go to the next profile
LoopExit ==
    /\ pc = "attempt"
    /\ ~LoopRuns
    /\ pc' = "profile"
    /\ profile_idx' = profile_idx + 1
    /\ UNCHANGED <<inputVars, db_queries, occupied_slots, profiles, active_profiles,
                   posted_history_set,
                   schedule, videos_by_theme, profile_slots, day_index, current_day_start,
                   current_day_end, daily_profiles, profile_counts,
                   last_brand_used_per_theme, planned_counts, needed_posts, total_needed,
                   attempts, max_profile_attempts, used_video_md5s,
                   used_video_profile_pairs, select_call, weight_log, slot_call>>

\* break: no platform, no pool for the theme or no brand with videos
AttemptBreak ==
    /\ pc = "attempt"
    /\ LoopRuns
    /\ LoopBreaks
    /\ attempts' = attempts + 1
    /\ pc' = "profile"
    /\ profile_idx' = profile_idx + 1
    /\ UNCHANGED <<inputVars, db_queries, occupied_slots, profiles, active_profiles,
                   posted_history_set,
                   schedule, videos_by_theme, profile_slots, day_index, current_day_start,
                   current_day_end, daily_profiles, profile_counts,
                   last_brand_used_per_theme, planned_counts, needed_posts, total_needed,
                   max_profile_attempts, used_video_md5s, used_video_profile_pairs,
                   select_call, weight_log, slot_call>>

\* select_brand_by_quota raises: the call ends in an exception
AttemptSelectRaises ==
    /\ pc = "attempt"
    /\ LoopRuns
    /\ ~LoopBreaks
    /\ SelectRaises(config, CanonicalTheme, AvailableBrands)
    /\ attempts' = attempts + 1
    /\ db_queries' = QueryCount
    /\ pc' = "error"
    /\ UNCHANGED <<inputVars, occupied_slots, profiles, active_profiles, posted_history_set,
                   schedule, videos_by_theme, profile_slots, day_index, current_day_start,
                   current_day_end, daily_profiles, profile_idx, profile_counts,
                   last_brand_used_per_theme, planned_counts, needed_posts, total_needed,
                   max_profile_attempts, used_video_md5s, used_video_profile_pairs,
                   select_call, weight_log, slot_call>>

\* continue: every video of the selected brand is used or in the history
AttemptNoVideo ==
    /\ pc = "attempt"
    /\ LoopRuns
    /\ ~LoopBreaks
    /\ ~SelectRaises(config, CanonicalTheme, AvailableBrands)
    /\ EligibleVideos = {}
    /\ AfterSelect(CanonicalTheme, AvailableBrands, SelectedBrand)
    /\ UNCHANGED <<inputVars, occupied_slots, profiles, pc, active_profiles,
                   posted_history_set, schedule, videos_by_theme, profile_slots, day_index,
                   current_day_start, current_day_end, daily_profiles, profile_idx,
                   profile_counts, needed_posts, total_needed, max_profile_attempts,
                   used_video_md5s, used_video_profile_pairs, slot_call>>

\* variant: the item is marked as used before the slot is known
AttemptNoSlotMarksUsed ==
    /\ pc = "attempt"
    /\ LoopRuns
    /\ ~LoopBreaks
    /\ ~SelectRaises(config, CanonicalTheme, AvailableBrands)
    /\ EligibleVideos # {}
    /\ LET slots == profile_slots[CurProfile.username]
       IN \E base_time \in get_random_time_window(current_day_start, current_day_end) :
             /\ None \in find_safe_slot(config, slots, base_time,
                                        current_day_start, current_day_end)
             /\ slot_call' = [slots |-> slots, desired |-> base_time, result |-> None]
    /\ AfterSelect(CanonicalTheme, AvailableBrands, SelectedBrand)
    /\ \E v \in EligibleVideos :
          IF config.allowVideoReuse
          THEN /\ used_video_profile_pairs' =
                     used_video_profile_pairs \cup {<<VideoId(v), CurProfile.username>>}
               /\ UNCHANGED used_video_md5s
          ELSE /\ used_video_md5s' = used_video_md5s \cup {VideoId(v)}
               /\ UNCHANGED used_video_profile_pairs
    /\ UNCHANGED <<inputVars, occupied_slots, profiles, pc, active_profiles,
                   posted_history_set, schedule, videos_by_theme, profile_slots, day_index,
                   current_day_start, current_day_end, daily_profiles, profile_idx,
                   profile_counts, needed_posts, total_needed, max_profile_attempts>>

\* continue: find_safe_slot returned None
AttemptNoSlot ==
    /\ pc = "attempt"
    /\ LoopRuns
    /\ ~LoopBreaks
    /\ ~SelectRaises(config, CanonicalTheme, AvailableBrands)
    /\ EligibleVideos # {}
    /\ LET slots == profile_slots[CurProfile.username]
       IN \E base_time \in get_random_time_window(current_day_start, current_day_end) :
             /\ None \in find_safe_slot(config, slots, base_time,
                                        current_day_start, current_day_end)
             /\ slot_call' = [slots |-> slots, desired |-> base_time, result |-> None]
    /\ AfterSelect(CanonicalTheme, AvailableBrands, SelectedBrand)
    /\ UNCHANGED <<inputVars, occupied_slots, profiles, pc, active_profiles,
                   posted_history_set, schedule, videos_by_theme, profile_slots, day_index,
                   current_day_start, current_day_end, daily_profiles, profile_idx,
                   profile_counts, needed_posts, total_needed, max_profile_attempts,
                   used_video_md5s, used_video_profile_pairs>>


\* variant: the item goes to the target platform alone
PlatformsToPostTargetOnly == <<TargetPl>>

\* the platforms one item is posted to (lines 311-314)
PlatformsToPost ==
    LET others == SelectSeq(needed_posts, LAMBDA e : e.pl # TargetPl /\ e.needed > 0)
    IN <<TargetPl>> \o [i \in 1..Len(others) |-> others[i].pl]

\* the values random.randint(2, 5) is drawn from: both ends
JitterChoices == {JitterMin, JitterMax}

\* the schedule items of one commit (lines 316-331); jitter[i] is used for i > 1
CommitItems(user, platforms, v, candidate_time, jitter) ==
    [i \in 1..Len(platforms) |->
        [video |-> v,
         profile |-> user,
         platform |-> platforms[i],
         publish_at |-> (IF i > 1 THEN candidate_time + jitter[i] ELSE candidate_time)
                        - MskOffset]]

\* number of platforms of the commit fully processed before a KeyError, if any
CountedPlatforms(platforms) ==
    IF \E i \in 1..Len(platforms) : platforms[i] \notin KnownPlatforms
    THEN (CHOOSE i \in 1..Len(platforms) :
             /\ platforms[i] \notin KnownPlatforms
             /\ \A j \in 1..(i - 1) : platforms[j] \in KnownPlatforms) - 1
    ELSE Len(platforms)

CommitRaises == CountedPlatforms(PlatformsToPost) < Len(PlatformsToPost)

\* success: mark used, take the slot, emit (lines 289-336)
CommitEffects(user, theme, selected, platforms, v, base_time, candidate_time, jitter) ==
    LET counted == CountedPlatforms(platforms)
        done == {platforms[i] : i \in 1..counted}
        items == CommitItems(user, platforms, v, candidate_time, jitter)
        brands == videos_by_theme[theme]
    IN /\ slot_call' = [slots |-> profile_slots[user], desired |-> base_time,
                        result |-> candidate_time]
       /\ IF config.allowVideoReuse
          THEN /\ used_video_profile_pairs' = used_video_profile_pairs \cup {<<VideoId(v), user>>}
               /\ UNCHANGED <<used_video_md5s, videos_by_theme>>
          ELSE /\ used_video_md5s' = used_video_md5s \cup {VideoId(v)}
               /\ videos_by_theme' =
                     [videos_by_theme EXCEPT ![theme] =
                         [i \in 1..Len(brands) |->
                             IF brands[i].brand = selected
                             THEN [brand |-> selected,
                                   vids |-> RemoveFirst(brands[i].vids, v)]
                             ELSE brands[i]]]
               /\ UNCHANGED used_video_profile_pairs
       /\ profile_slots' = [profile_slots EXCEPT ![user] = Append(@, candidate_time)]
       \* profile_slots is a shallow copy: the caller's list is the same object
       /\ occupied_slots' = IF user \in DOMAIN occupied_slots
                            THEN [occupied_slots EXCEPT ![user] = Append(@, candidate_time)]
                            ELSE occupied_slots
       /\ schedule' = schedule \o SubSeq(items, 1, IF counted < Len(platforms)
                                                    THEN counted + 1 ELSE counted)
       /\ profile_counts' = [profile_counts EXCEPT ![user] =
                                [pl \in DOMAIN @ |-> IF pl \in done THEN @[pl] + 1 ELSE @[pl]]]
       /\ needed_posts' = [k \in 1..Len(needed_posts) |->
                              IF needed_posts[k].pl \in done
                              THEN [needed_posts[k] EXCEPT !.needed = @ - 1]
                              ELSE needed_posts[k]]
       /\ total_needed' = total_needed - counted

\* the choices of one successful pass: video, drawn time, free slot, jitter
CommitChoice ==
    LET user == CurProfile.username
        theme == CanonicalTheme
        brands == AvailableBrands
        selected == SelectedBrand
        platforms == PlatformsToPost
        slots == profile_slots[user]
    IN /\ \E v \in EligibleVideos :
          \E base_time \in get_random_time_window(current_day_start, current_day_end) :
          \E candidate_time \in find_safe_slot(config, slots, base_time,
                                               current_day_start, current_day_end) \ {None} :
          \E jitter \in [1..Len(platforms) -> JitterChoices] :
             /\ \A i \in 1..Len(platforms) : i = 1 => jitter[i] = JitterMin
             /\ CommitEffects(user, theme, selected, platforms, v, base_time,
                              candidate_time, jitter)
       /\ AfterSelect(theme, brands, selected)

AttemptCommit ==
    /\ pc = "attempt"
    /\ LoopRuns
    /\ ~LoopBreaks
    /\ ~SelectRaises(config, CanonicalTheme, AvailableBrands)
    /\ ~CommitRaises
    /\ CommitChoice
    /\ UNCHANGED <<inputVars, profiles, pc, active_profiles, posted_history_set,
                   day_index, current_day_start, current_day_end, daily_profiles,
                   profile_idx, max_profile_attempts>>

\* a platform unknown to profile_counts raises KeyError inside the emit loop
AttemptCommitRaises ==
    /\ pc = "attempt"
    /\ LoopRuns
    /\ ~LoopBreaks
    /\ ~SelectRaises(config, CanonicalTheme, AvailableBrands)
    /\ CommitRaises
    /\ CommitChoice
    /\ pc' = "error"
    /\ UNCHANGED <<inputVars, profiles, active_profiles, posted_history_set,
                   day_index, current_day_start, current_day_end, daily_profiles,
                   profile_idx, max_profile_attempts>>

(***************************************************************************)
(* Inputs of a run                                                         *)
(***************************************************************************)
Profile(u, en, theme, pls, ig, tt, yt, lim) ==
    [username |-> u, enabled |-> en, theme_key |-> theme, platforms |-> pls,
     instagramLimit |-> ig, tiktokLimit |-> tt, youtubeLimit |-> yt, limit |-> lim]

U1 == Profile("u1", TRUE, <<"S", "h">>, <<"instagram", "tiktok">>, 2, 1, None, None)
U2 == Profile("u2", TRUE, <<"s", " ", "h">>, <<"tiktok">>, None, None, None, None)

ProfileChoices ==
    { <<U1>>,
      <<U1, U2>>,
      <<[U1 EXCEPT !.instagramLimit = 0]>>,
      <<[U1 EXCEPT !.instagramLimit = None, !.tiktokLimit = None, !.limit = 1],
        [U2 EXCEPT !.tiktokLimit = 2, !.limit = 0]>>,
      <<[U1 EXCEPT !.enabled = FALSE], [U2 EXCEPT !.platforms = <<"", " ">>]>>,
      <<[U1 EXCEPT !.platforms = <<"instagram", " ", "instagram">>]>>,
      <<[U1 EXCEPT !.platforms = <<"tiktok", "vk">>]>>,
      <<[U1 EXCEPT !.theme_key = <<"f", "w">>], [U2 EXCEPT !.theme_key = << >>]>> }

Video(p, m) == [path |-> p, md5 |-> m, name |-> p]

VideoChoices ==
    { << Video("p_a1", "m1"), Video("p_a2", ""), Video("p_b1", "m3") >>,
      << Video("p_a1", "m1"), Video("p_a3", "m1"), Video("p_x1", "m4"),
         Video("", "m5"), Video("p_g1", "m6") >>,
      << Video("p_f1", "m9"), Video("p_s1", "m10"), Video("p_a1", "m1"),
         Video("p_w1", "m11") >> }

Clients == << [name |-> <<"A">>, regex |-> << >>], [name |-> <<"B">>, regex |-> << >>] >>

\* a registry whose clients K and N are matched by pattern, one pattern being broken
RegexClients ==
    << [name |-> <<"A">>, regex |-> InvalidRegex], [name |-> <<"K">>, regex |-> <<"b">>],
       [name |-> <<"N">>, regex |-> <<"n">>] >>

ClientChoices == {Clients, RegexClients}

ThemeAliases == << [canonical |-> <<"s", "h">>, aliases |-> << <<"F", "w">> >>] >>

CatShoes == <<"s", "h">>
BrandA == <<"a">>
BrandB == <<"b">>

\* brandQuotas of the configuration and published counts of the BrandStats rows
QuotaChoices ==
    { [quotas |-> (CatShoes :> (BrandA :> 3 @@ BrandB :> 1)),
       stats |-> (CatShoes :> (BrandA :> 1 @@ BrandB :> 1))],
      [quotas |-> (CatShoes :> (BrandA :> 2 @@ BrandB :> 2)),
       stats |-> EmptyDict],
      [quotas |-> EmptyDict,
       stats |-> (CatShoes :> (BrandA :> 1))],
      [quotas |-> (CatShoes :> (BrandA :> None @@ BrandB :> 1)),
       stats |-> EmptyDict] }

NowChoices == {7 * 60, 12 * 60, 23 * 60 + 30, 23 * 60 + 55}

WindowChoices ==
    { [present |-> FALSE, start_hour |-> DefaultStartHour, end_hour |-> DefaultEndHour],
      [present |-> TRUE, start_hour |-> 22, end_hour |-> 23] }

MinIntervalChoices == {0, 30}

HistoryChoices ==
    { {},
      { [profile_username |-> "u1", video_path |-> "p_a1", status |-> "success"],
        [profile_username |-> "u1", video_path |-> "p_b1", status |-> "failed"],
        [profile_username |-> "u2", video_path |-> "p_a2", status |-> "queued"] } }

\* caller-supplied occupied slots: none, 08:00 or 22:30 of the first day
OccupiedChoices == { EmptyDict, ("u1" :> <<8 * 60>>), ("u1" :> <<22 * 60 + 30>>) }

\* caller-supplied counts per (day, recipient, platform)
ExistingChoices ==
    { EmptyDict,
      (<<0, "u1", "instagram">> :> 1),
      (<<1, "u1", "instagram">> :> 1 @@ <<1, "u1", "tiktok">> :> 1) }

ForceLimitChoices == {None, 1}

\* the database answers every query, none, or only the first or the first two
DbChoices == {None, 0, 1, 2}

GlobalLimits == [instagram |-> 2, tiktok |-> 1, youtube |-> 1]

InputFields == {"days", "now", "reuse", "window", "gap", "profiles", "videos", "quota",
                "check", "history", "occupied", "existing", "force", "clients", "db"}

DefaultInput ==
    [days |-> 1, now |-> 7 * 60, reuse |-> FALSE,
     window |-> [present |-> FALSE, start_hour |-> DefaultStartHour, end_hour |-> DefaultEndHour],
     gap |-> 0, profiles |-> <<U1>>,
     videos |-> << Video("p_a1", "m1"), Video("p_a2", ""), Video("p_b1", "m3") >>,
     quota |-> [quotas |-> (CatShoes :> (BrandA :> 3 @@ BrandB :> 1)),
                stats |-> (CatShoes :> (BrandA :> 1 @@ BrandB :> 1))],
     check |-> TRUE, history |-> {}, occupied |-> EmptyDict, existing |-> EmptyDict,
     force |-> None, clients |-> Clients, db |-> None]

InputChoices ==
    [days |-> 0..MaxDays, now |-> NowChoices, reuse |-> BOOLEAN, window |-> WindowChoices,
     gap |-> MinIntervalChoices, profiles |-> ProfileChoices, videos |-> VideoChoices,
     quota |-> QuotaChoices, check |-> BOOLEAN, history |-> HistoryChoices,
     occupied |-> OccupiedChoices, existing |-> ExistingChoices, force |-> ForceLimitChoices,
     clients |-> ClientChoices, db |-> DbChoices]

\* pairs of fields that are varied together
FieldPairs ==
    { <<"days", "now">>, <<"days", "existing">>, <<"now", "existing">>, <<"days", "reuse">>,
      <<"reuse", "profiles">>, <<"reuse", "history">>, <<"reuse", "videos">>,
      <<"force", "profiles">>, <<"occupied", "window">>, <<"occupied", "gap">>,
      <<"quota", "videos">>, <<"history", "check">>, <<"days", "quota">>, <<"db", "check">> }

\* a late start, a horizon of two days and counts of an earlier run
LateInputs ==
    {[DefaultInput EXCEPT !.now = 23 * 60 + 55, !.days = 2, !.existing = e] :
        e \in ExistingChoices}

\* a catalog with an item outside the anchor folder and a recipient of category "unknown"
UnknownInputs ==
    {[DefaultInput EXCEPT !.clients = c,
                          !.profiles = <<[U1 EXCEPT !.theme_key = UNKNOWN]>>,
                          !.videos = << Video("p_n1", "m7"), Video("p_a1", "m1") >>] :
        c \in ClientChoices}

\* keys spelled as a user types them: quotas under "Sh" and "A", "B", and a client whose
\* name is the letter U+0401 with a brand folder of that name
SpellingInputs ==
    { [DefaultInput EXCEPT !.quota = [quotas |-> (<<"S", "h">> :> (<<"A">> :> 3 @@ <<"B">> :> 1)),
                                      stats |-> DefaultInput.quota.stats]],
      [DefaultInput EXCEPT !.clients = << [name |-> <<"YO">>, regex |-> << >>],
                                          [name |-> <<"B">>, regex |-> << >>] >>,
                           !.videos = << Video("p_y1", "m8"), Video("p_b1", "m3") >>] }

\* the runs explored: the default input with one field, or one of the pairs, varied
Inputs ==
    UNION {{[DefaultInput EXCEPT ![fg[1]] = a, ![fg[2]] = b] :
               a \in InputChoices[fg[1]], b \in InputChoices[fg[2]]} :
           fg \in FieldPairs \cup {<<f, f>> : f \in InputFields}}
    \cup LateInputs \cup UnknownInputs \cup SpellingInputs

\* the host before any request
Runs == 1..MaxRuns

NoRow == [posted_at |-> None, status |-> "none", video_path |-> "", caption |-> FALSE]

HostIdle(offsets) ==
    /\ run_pos = [r \in Runs |-> "idle"]
    /\ run_slot = [r \in Runs |-> None]
    /\ host_now = 0
    /\ server_offset \in offsets
    /\ last_run_minute = None
    /\ cron_warnings = 0
    /\ history_rows = [r \in Runs |-> NoRow]
    /\ post_tasks = {}
    /\ transport = {}
    /\ webhooks = {}
    /\ webhook_count = 0
    /\ cleanup_tasks = {}
    /\ archived = {}

\* generate_schedule called with arguments of the caller's choice: no worker around it
NotFetched == [fetched |-> FALSE, list |-> << >>]

DirectCall ==
    /\ api_profiles = NotFetched
    /\ scheduled_posts = << >>
    /\ validated_profiles = << >>
    /\ worker_rows = << >>

\* the configuration, the catalog and the database a call finds
InitCall(in) ==
          /\ config = [daysToGenerate |-> in.days, themeAliases |-> ThemeAliases,
                       brandQuotas |-> in.quota.quotas, limits |-> GlobalLimits,
                       clients |-> in.clients, schedule |-> in.window,
                       allowVideoReuse |-> in.reuse, minIntervalMinutes |-> in.gap]
          /\ videos = in.videos
          /\ profiles = in.profiles
          /\ check_db_duplicates = in.check
          /\ force_limit = in.force
          /\ now_msk = in.now
          /\ brand_stats = in.quota.stats
          /\ posting_history = in.history
          /\ db_answers = in.db

\* the locals of generate_schedule and the fields of the scheduler before the call
InitLocals ==
    /\ db_queries = 0
    /\ active_profiles = << >>
    /\ posted_history_set = {}
    /\ schedule = << >>
    /\ videos_by_theme = EmptyDict
    /\ profile_slots = EmptyDict
    /\ day_index = 0
    /\ current_day_start = 0
    /\ current_day_end = 0
    /\ daily_profiles = << >>
    /\ profile_idx = 0
    /\ profile_counts = EmptyDict
    /\ last_brand_used_per_theme = EmptyDict
    /\ planned_counts = EmptyDict
    /\ needed_posts = << >>
    /\ total_needed = 0
    /\ attempts = 0
    /\ max_profile_attempts = 0
    /\ used_video_md5s = {}
    /\ used_video_profile_pairs = {}
    /\ select_call = [category |-> << >>, available_brands |-> << >>, last_brand |-> << >>,
                      planned |-> EmptyDict, weights |-> EmptyDict, result |-> << >>]
    /\ weight_log = EmptyDict
    /\ slot_call = [slots |-> << >>, desired |-> None, result |-> None]

InitEngine(inputs) ==
    /\ \E in \in inputs :
          /\ InitCall(in)
          /\ occupied_slots = in.occupied
          /\ caller_slots = in.occupied
          /\ existing_counts = in.existing
    /\ InitLocals
    /\ pc = "start"
    /\ DirectCall

Init == InitEngine(Inputs) /\ HostIdle({0})

Next ==
    \/ BeginRaises
    \/ Begin
    \/ DaySkip
    \/ DayBegin
    \/ ProfileBegin
    \/ DayEndStep
    \/ Return
    \/ LoopExit
    \/ AttemptBreak
    \/ AttemptSelectRaises
    \/ AttemptNoVideo
    \/ AttemptNoSlot
    \/ AttemptCommit
    \/ AttemptCommitRaises

Spec == Init /\ [][Next]_vars


(***************************************************************************)
(* The quota resolver alone: successive selections of one day for one      *)
(* theme (lines 235-242), from drawn quotas, published counts, candidates  *)
(***************************************************************************)
BrandC == <<"c">>

\* available brands of the theme, in pool order; BrandC has no configured quota
CandidateChoices == { <<BrandA>>, <<BrandA, BrandB>>, <<BrandB, BrandA>>,
                      <<BrandB, BrandC, BrandA>> }

\* a quota is Optional[int]: an integer or null
QuotaValues == (0..MaxQuota) \cup {None}

\* the theme's last brand when the loop is entered: none yet, a candidate, or a brand
\* whose pool has been emptied since
LastBrandChoices == {EmptyDict, CatShoes :> BrandA, CatShoes :> BrandC}

InitSelect ==
    /\ \E qa \in QuotaValues, qb \in 0..MaxQuota : \E pa, pb \in 0..MaxPublished :
       \E brands \in CandidateChoices :
          /\ config = [daysToGenerate |-> 1, themeAliases |-> ThemeAliases,
                       brandQuotas |-> (CatShoes :> (BrandA :> qa @@ BrandB :> qb)),
                       limits |-> GlobalLimits, clients |-> Clients,
                       schedule |-> DefaultInput.window, allowVideoReuse |-> TRUE,
                       minIntervalMinutes |-> 0]
          /\ brand_stats = (CatShoes :> (BrandA :> pa @@ BrandB :> pb))
          /\ videos_by_theme =
                (CatShoes :> [i \in 1..Len(brands) |->
                                 [brand |-> brands[i], vids |-> <<Video("p_a1", "m1")>>]])
    /\ videos = << Video("p_a1", "m1") >>
    /\ profiles = <<U1>>
    /\ occupied_slots = EmptyDict
    /\ caller_slots = EmptyDict
    /\ existing_counts = EmptyDict
    /\ check_db_duplicates = TRUE
    /\ force_limit = None
    /\ now_msk = DefaultInput.now
    /\ posting_history = {}
    /\ pc = "select"
    /\ active_profiles = <<U1>>
    /\ posted_history_set = {}
    /\ schedule = << >>
    /\ profile_slots = ("u1" :> << >>)
    /\ day_index = 0
    /\ current_day_start = DayStart(0)
    /\ current_day_end = DayEnd(DayStart(0))
    /\ daily_profiles = <<U1>>
    /\ profile_idx = 1
    /\ profile_counts = SeededCounts(0)
    /\ last_brand_used_per_theme \in LastBrandChoices
    /\ planned_counts = EmptyDict
    /\ db_answers = None
    /\ db_queries = 0
    /\ HostIdle({0})
    /\ DirectCall
    /\ needed_posts = <<[pl |-> "instagram", needed |-> MaxSelections]>>
    /\ total_needed = MaxSelections
    /\ attempts = 0
    /\ max_profile_attempts = MaxSelections
    /\ used_video_md5s = {}
    /\ used_video_profile_pairs = {}
    /\ select_call = [category |-> << >>, available_brands |-> << >>, last_brand |-> << >>,
                      planned |-> EmptyDict, weights |-> EmptyDict, result |-> << >>]
    /\ weight_log = EmptyDict
    /\ slot_call = [slots |-> << >>, desired |-> None, result |-> None]

\* one pass of lines 235-242: select a brand, remember it, count it as planned
SelectStep ==
    /\ pc = "select"
    /\ LoopRuns
    /\ ~LoopBreaks
    /\ ~SelectRaises(config, CanonicalTheme, AvailableBrands)
    /\ AfterSelect(CanonicalTheme, AvailableBrands, SelectedBrand)
    /\ UNCHANGED <<inputVars, occupied_slots, profiles, pc, active_profiles,
                   posted_history_set, schedule, videos_by_theme, profile_slots, day_index,
                   current_day_start, current_day_end, daily_profiles, profile_idx,
                   profile_counts, needed_posts, total_needed, max_profile_attempts,
                   used_video_md5s, used_video_profile_pairs, slot_call>>

\* the same pass when select_brand_by_quota raises: the exception leaves the loop
SelectStepRaises ==
    /\ pc = "select"
    /\ LoopRuns
    /\ ~LoopBreaks
    /\ SelectRaises(config, CanonicalTheme, AvailableBrands)
    /\ attempts' = attempts + 1
    /\ db_queries' = QueryCount
    /\ pc' = "error"
    /\ UNCHANGED <<inputVars, occupied_slots, profiles, active_profiles,
                   posted_history_set, schedule, videos_by_theme, profile_slots, day_index,
                   current_day_start, current_day_end, daily_profiles, profile_idx,
                   profile_counts, last_brand_used_per_theme, planned_counts, needed_posts,
                   total_needed, max_profile_attempts, used_video_md5s,
                   used_video_profile_pairs, select_call, weight_log, slot_call>>

NextSelect == SelectStep \/ SelectStepRaises

SpecSelect == InitSelect /\ [][NextSelect]_vars

(***************************************************************************)
(* The slot allocator alone: find_safe_slot called for one recipient on    *)
(* lists, windows and minimum intervals drawn from small sets; slot_call   *)
(* also holds the number of candidates the call tested.                    *)
(***************************************************************************)
SlotListChoices == { << >>, <<8 * 60>>, <<22 * 60 + 30>>, <<8 * 60, 23 * 60>> }

\* a whole window, and one shorter than the minimum interval
SlotWindowChoices == { <<8 * 60, 23 * 60>>, <<22 * 60 + 40, 23 * 60>> }

InitSlot ==
    /\ \E gap \in MinIntervalChoices, slots \in SlotListChoices, w \in SlotWindowChoices :
          /\ config = [daysToGenerate |-> 1, themeAliases |-> ThemeAliases,
                       brandQuotas |-> DefaultInput.quota.quotas,
                       limits |-> GlobalLimits, clients |-> Clients,
                       schedule |-> DefaultInput.window, allowVideoReuse |-> TRUE,
                       minIntervalMinutes |-> gap]
          /\ profile_slots = ("u1" :> slots)
          /\ occupied_slots = ("u1" :> slots)
          /\ caller_slots = ("u1" :> slots)
          /\ current_day_start = w[1]
          /\ current_day_end = w[2]
    /\ brand_stats = EmptyDict
    /\ videos_by_theme = EmptyDict
    /\ videos = << >>
    /\ profiles = <<U1>>
    /\ existing_counts = EmptyDict
    /\ check_db_duplicates = TRUE
    /\ force_limit = None
    /\ now_msk = DefaultInput.now
    /\ posting_history = {}
    /\ pc = "slot"
    /\ active_profiles = <<U1>>
    /\ posted_history_set = {}
    /\ schedule = << >>
    /\ day_index = 0
    /\ daily_profiles = <<U1>>
    /\ profile_idx = 1
    /\ profile_counts = SeededCounts(0)
    /\ last_brand_used_per_theme = EmptyDict
    /\ planned_counts = EmptyDict
    /\ db_answers = None
    /\ db_queries = 0
    /\ HostIdle({0})
    /\ DirectCall
    /\ needed_posts = <<[pl |-> "instagram", needed |-> MaxSelections]>>
    /\ total_needed = MaxSelections
    /\ attempts = 0
    /\ max_profile_attempts = MaxSelections
    /\ used_video_md5s = {}
    /\ used_video_profile_pairs = {}
    /\ select_call = [category |-> << >>, available_brands |-> << >>, last_brand |-> << >>,
                      planned |-> EmptyDict, weights |-> EmptyDict, result |-> << >>]
    /\ weight_log = EmptyDict
    /\ slot_call = [slots |-> << >>, desired |-> None, result |-> None, tests |-> 0]

\* lines 281-298: draw a time, call find_safe_slot, append the slot it returned
SlotStep ==
    /\ pc = "slot"
    /\ attempts < MaxSelections
    /\ LET u == CurProfile.username
           slots == profile_slots[u]
       IN \E base_time \in get_random_time_window(current_day_start, current_day_end) :
          \E found \in SlotOutcomes(config, slots, base_time,
                                    current_day_start, current_day_end) :
             /\ slot_call' = [slots |-> slots, desired |-> base_time,
                              result |-> found.result, tests |-> found.tests]
             /\ profile_slots' = IF found.result = None THEN profile_slots
                                 ELSE [profile_slots EXCEPT ![u] = Append(@, found.result)]
             \* profile_slots is a shallow copy: the caller's list is the same object
             /\ occupied_slots' = IF found.result = None THEN occupied_slots
                                  ELSE [occupied_slots EXCEPT ![u] = Append(@, found.result)]
    /\ attempts' = attempts + 1
    /\ UNCHANGED <<inputVars, profiles, pc, active_profiles,
                   posted_history_set, schedule, videos_by_theme, day_index,
                   current_day_start, current_day_end, daily_profiles, profile_idx,
                   profile_counts, last_brand_used_per_theme, planned_counts, needed_posts,
                   total_needed, max_profile_attempts, used_video_md5s,
                   used_video_profile_pairs, select_call, weight_log, db_queries>>

NextSlot == SlotStep

SpecSlot == InitSlot /\ [][NextSlot]_vars

(***************************************************************************)
(* A run with the delivery collaborator at work: while generate_schedule   *)
(* runs, the reports of posts of earlier runs arrive.                      *)
(***************************************************************************)
\* rows the report handlers still accept (main.py:753, 788-791)
Pending(row) == row.status \in {"queued", "processing"}

\* the upload webhook (main.py:788-822) and the status poll (status_polling.py:80-97):
\* a pending row gets its final status; a success is counted in BrandStats
DeliveryReport ==
    /\ \E row \in posting_history : \E upload_success \in BOOLEAN :
          /\ Pending(row)
          /\ posting_history' = (posting_history \ {row})
                \cup {[row EXCEPT !.status = IF upload_success THEN "success" ELSE "failed"]}
          /\ brand_stats' = IF upload_success
                            THEN increment_brand_stats(config, brand_stats, row.video_path)
                            ELSE brand_stats
    /\ UNCHANGED <<config, videos, existing_counts, check_db_duplicates, force_limit,
                   now_msk, caller_slots, db_answers, workerVars, hostVars, profiles,
                   occupied_slots, runVars>>

InitStats == Init

NextStats == Next \/ DeliveryReport

SpecStats == InitStats /\ [][NextStats]_vars


(***************************************************************************)
(* The host: triggers of a run, persistence and dispatch                   *)
(***************************************************************************)
\* a datetime: wall-clock minutes and the UTC offset of its tzinfo, None when naive
replace_tzinfo(dt, tz) == [dt EXCEPT !.tzinfo = tz]

\* astimezone of an aware datetime
astimezone(dt, tz) == [wall |-> dt.wall - dt.tzinfo + tz, tzinfo |-> tz]

\* the instant an aware datetime denotes, in UTC minutes
InstantOf(dt) == dt.wall - dt.tzinfo

\* datetime.isoformat(): the digits of the wall clock and, for an aware value, its offset
isoformat(dt) ==
    [digits |-> dt.wall,
     suffix |-> IF dt.tzinfo = None THEN ""
                ELSE IF dt.tzinfo = 0 THEN "+00:00" ELSE "+03:00"]

\* datetime.fromisoformat()
fromisoformat(iso) ==
    [wall |-> iso.digits,
     tzinfo |-> CASE iso.suffix = "" -> None
                  [] iso.suffix = "+00:00" -> 0
                  [] iso.suffix = "+03:00" -> MskOffset]

\* publish_time_iso.replace('Z', '')
StripZ(iso) == IF iso.suffix = "Z" THEN [iso EXCEPT !.suffix = ""] ELSE iso

\* the publish_at the engine emits for a slot (scheduler.py:316-331)
publish_at(candidate_time) ==
    isoformat(astimezone(replace_tzinfo([wall |-> candidate_time, tzinfo |-> None], MskOffset),
                         0))

\* the posted_at the worker stores (worker.py:174-179)
posted_at(publish_time_iso) ==
    LET publish_dt == fromisoformat(publish_time_iso)
    IN IF publish_dt.tzinfo # None THEN replace_tzinfo(publish_dt, None) ELSE publish_dt

\* the UTC time post_content computes from its argument (worker.py:308-319)
publish_dt_utc(publish_time_iso) ==
    LET publish_dt_naive == fromisoformat(StripZ(publish_time_iso))
        publish_dt_msk == replace_tzinfo(publish_dt_naive, MskOffset)
    IN astimezone(publish_dt_msk, 0)

\* the scheduled date handed to the transport: None publishes at once (worker.py:321-334)
schedule_param(publish_time_iso, now_utc) ==
    IF InstantOf(publish_dt_utc(publish_time_iso)) > now_utc
    THEN InstantOf(publish_dt_utc(publish_time_iso))
    ELSE None

\* slots of the schedules the engine returns to the host: 06:00 and 10:00 Moscow time
SlotChoices == {6 * 60, 10 * 60}

\* the moments of the host clock
ClockTimes == {0, 4 * 60}

ServerOffsets == {0, MskOffset}

\* POST /api/run: a task running generate_daily_schedule is created
RunAutomation ==
    /\ \E r \in Runs :
          /\ run_pos[r] = "idle"
          /\ \A q \in 1..(r - 1) : run_pos[q] # "idle"
          /\ run_pos' = [run_pos EXCEPT ![r] = "config"]
    /\ UNCHANGED <<run_slot, host_now, server_offset, last_run_minute, cron_warnings,
                   history_rows, post_tasks, transport>>
    /\ UNCHANGED <<engineVars, deliveryVars>>

\* the host clock advances
Tick ==
    /\ \E t \in ClockTimes : t > host_now /\ host_now' = t
    /\ UNCHANGED <<run_pos, run_slot, server_offset, last_run_minute, cron_warnings,
                   history_rows, post_tasks, transport>>
    /\ UNCHANGED <<engineVars, deliveryVars>>

\* DynamicScheduler.loop and check_and_run: once a minute; when the cron expression
\* matches, generate_daily_schedule.delay() raises AttributeError (the function is no
\* Celery task), which check_and_run logs as a warning: no run is started
CronCheck ==
    /\ last_run_minute # host_now
    /\ last_run_minute' = host_now
    /\ \E matches \in BOOLEAN :
          cron_warnings' = IF matches THEN cron_warnings + 1 ELSE cron_warnings
    /\ UNCHANGED <<run_pos, run_slot, host_now, server_offset, history_rows, post_tasks,
                   transport>>
    /\ UNCHANGED <<engineVars, deliveryVars>>

\* generate_daily_schedule up to its first await: the configuration is loaded, or the
\* load fails and the function returns (worker.py:21-30)
RunLoadConfig ==
    /\ \E r \in Runs :
          /\ run_pos[r] = "config"
          /\ \E ok \in BOOLEAN :
                run_pos' = [run_pos EXCEPT ![r] = IF ok THEN "fetch" ELSE "finished"]
    /\ UNCHANGED <<run_slot, host_now, server_offset, last_run_minute, cron_warnings,
                   history_rows, post_tasks, transport>>
    /\ UNCHANGED <<engineVars, deliveryVars>>

\* the catalog, the profiles of the API and the scheduled posts are fetched
\* (worker.py:32-161)
RunFetch ==
    /\ \E r \in Runs :
          /\ run_pos[r] = "fetch"
          /\ run_pos' = [run_pos EXCEPT ![r] = "schedule"]
    /\ UNCHANGED <<run_slot, host_now, server_offset, last_run_minute, cron_warnings,
                   history_rows, post_tasks, transport>>
    /\ UNCHANGED <<engineVars, deliveryVars>>

\* generate_schedule returns a schedule of one assignment, or none (worker.py:165-168)
RunSchedule ==
    /\ \E r \in Runs :
          /\ run_pos[r] = "schedule"
          /\ \E slot \in SlotChoices \cup {None} :
                /\ run_slot' = [run_slot EXCEPT ![r] = slot]
                /\ run_pos' = [run_pos EXCEPT ![r] = IF slot = None THEN "finished"
                                                     ELSE "persist"]
    /\ UNCHANGED <<host_now, server_offset, last_run_minute, cron_warnings,
                   history_rows, post_tasks, transport>>
    /\ UNCHANGED <<engineVars, deliveryVars>>

\* the video of the assignment the engine returns to the host
RunVideo == "p_a1"

\* a post_content task that has not started
Task(id, iso, via) == [id |-> id, iso |-> iso, via |-> via, pos |-> "start", success |-> FALSE]

\* the assignment is stored as a queued row and a post_content task is created for it
\* (worker.py:170-204)
RunPersist ==
    /\ \E r \in Runs :
          /\ run_pos[r] = "persist"
          /\ LET publish_time_iso == publish_at(run_slot[r])
             IN /\ history_rows' = [history_rows EXCEPT ![r] =
                                       [posted_at |-> posted_at(publish_time_iso).wall,
                                        status |-> "queued", video_path |-> RunVideo,
                                        caption |-> FALSE]]
                /\ post_tasks' = post_tasks \cup {Task(r, publish_time_iso, "run")}
          /\ run_pos' = [run_pos EXCEPT ![r] = "finished"]
    /\ UNCHANGED <<run_slot, host_now, server_offset, last_run_minute, cron_warnings,
                   transport>>
    /\ UNCHANGED <<engineVars, deliveryVars>>

\* background_publisher: a queued row whose posted_at is not after datetime.now() is
\* marked as processing and a post_content task is created from its posted_at
PublisherDispatch ==
    /\ \E r \in Runs :
          /\ history_rows[r].status = "queued"
          /\ history_rows[r].posted_at <= host_now + server_offset
          /\ history_rows' = [history_rows EXCEPT ![r].status = "processing"]
          /\ post_tasks' = post_tasks
                \cup {Task(r, isoformat([wall |-> history_rows[r].posted_at,
                                         tzinfo |-> None]), "publisher")}
    /\ UNCHANGED <<run_pos, run_slot, host_now, server_offset, last_run_minute,
                   cron_warnings, transport>>
    /\ UNCHANGED <<engineVars, deliveryVars>>

\* update_post_status: the status is written whatever the row holds (worker.py:399-416)
update_post_status(rows, history_id, status) == [rows EXCEPT ![history_id].status = status]

\* post_content up to the answer of the transport: no download link marks the row as
\* failed; otherwise the row is marked as processing and the post is handed to the
\* transport with the scheduled date computed from the argument (worker.py:219-364)
PostContent ==
    /\ \E task \in post_tasks :
          /\ task.pos = "start"
          /\ \/ /\ post_tasks' = post_tasks \ {task}
                /\ history_rows' = update_post_status(history_rows, task.id, "failed")
                /\ UNCHANGED transport
             \/ \E success \in BOOLEAN :
                   /\ post_tasks' = (post_tasks \ {task})
                         \cup {[task EXCEPT !.pos = "update", !.success = success]}
                   /\ history_rows' = update_post_status(history_rows, task.id, "processing")
                   /\ transport' = transport
                         \cup {[id |-> task.id, via |-> task.via, accepted |-> success,
                                scheduled_date |-> schedule_param(task.iso, host_now)]}
    /\ UNCHANGED <<run_pos, run_slot, host_now, server_offset, last_run_minute,
                   cron_warnings>>
    /\ UNCHANGED <<engineVars, deliveryVars>>

\* post_content after the answer: an accepted post is marked as processing and its caption
\* saved, a refused one is marked as failed (worker.py:366-397)
PostContentFinish ==
    /\ \E task \in post_tasks :
          /\ task.pos = "update"
          /\ post_tasks' = post_tasks \ {task}
          /\ history_rows' =
                IF task.success
                THEN [history_rows EXCEPT ![task.id].status = "processing",
                                          ![task.id].caption = TRUE]
                ELSE update_post_status(history_rows, task.id, "failed")
    /\ UNCHANGED <<run_pos, run_slot, host_now, server_offset, last_run_minute,
                   cron_warnings, transport>>
    /\ UNCHANGED <<engineVars, deliveryVars>>

InitHost == InitEngine({DefaultInput}) /\ HostIdle(ServerOffsets)

NextHost ==
    \/ RunAutomation
    \/ Tick
    \/ CronCheck
    \/ RunLoadConfig
    \/ RunFetch
    \/ RunSchedule
    \/ RunPersist
    \/ PublisherDispatch
    \/ PostContent
    \/ PostContentFinish

SpecHost == InitHost /\ [][NextHost]_vars

(***************************************************************************)
(* Deliveries: completion webhooks, the published counts and the archive   *)
(***************************************************************************)
FinalStatuses == {"success", "failed"}

\* the rows an upload_completed webhook about a post can be matched to: by the caption
\* post_content saved, in any status; without a caption in the payload, the pending row
\* with the latest posted_at (main.py:719-757; the rows of the host are of one profile
\* and platform)
WebhookMatches(with_caption, id) ==
    IF with_caption
    THEN {r \in {id} : history_rows[r].caption}
    ELSE LET pending == {r \in Runs : Pending(history_rows[r])}
         IN {r \in pending :
                \A q \in pending : history_rows[q].posted_at <= history_rows[r].posted_at}

\* upload_post_webhook up to its first write: the post is looked up and a post in a final
\* status is left alone (main.py:668-793)
WebhookReceive ==
    /\ \E e \in transport : \E with_caption, upload_success \in BOOLEAN :
          /\ e.accepted
          /\ webhook_count < MaxWebhooks
          /\ webhook_count' = webhook_count + 1
          /\ LET matches == WebhookMatches(with_caption, e.id)
             IN IF matches = {}
                THEN UNCHANGED webhooks
                ELSE \E r \in matches :
                        IF history_rows[r].status \in FinalStatuses
                        THEN UNCHANGED webhooks
                        ELSE webhooks' = webhooks
                                \cup {[post |-> r, upload_success |-> upload_success,
                                       request |-> webhook_count + 1]}
    /\ UNCHANGED <<run_pos, run_slot, host_now, server_offset, last_run_minute,
                   cron_warnings, history_rows, post_tasks, transport, cleanup_tasks,
                   archived>>
    /\ UNCHANGED engineVars

\* upload_post_webhook from its update on: the status is written; a success is counted in
\* BrandStats and a check_cleanup task created, a failure moves an archived video back
\* when the move succeeds (main.py:795-842)
WebhookApply ==
    /\ \E h \in webhooks :
          LET video_path == history_rows[h.post].video_path
          IN /\ webhooks' = webhooks \ {h}
             /\ history_rows' =
                   [history_rows EXCEPT ![h.post].status =
                       IF h.upload_success THEN "success" ELSE "failed"]
             /\ IF h.upload_success
                THEN /\ brand_stats' = increment_brand_stats(config, brand_stats, video_path)
                     /\ cleanup_tasks' = cleanup_tasks \cup {video_path}
                     /\ UNCHANGED archived
                ELSE /\ \E restored \in BOOLEAN :
                           archived' = IF restored THEN archived \ {video_path} ELSE archived
                     /\ UNCHANGED <<brand_stats, cleanup_tasks>>
    /\ UNCHANGED <<run_pos, run_slot, host_now, server_offset, last_run_minute,
                   cron_warnings, post_tasks, transport, webhook_count>>
    /\ UNCHANGED <<config, videos, existing_counts, check_db_duplicates, force_limit,
                   now_msk, posting_history, caller_slots, db_answers, workerVars, profiles,
                   occupied_slots, runVars>>

\* variant: pending rows do not hold the archive back
any_success(rows) == \E row \in rows : row.status = "success"

\* the decision of check_cleanup: every post completed and at least one succeeded
\* (worker.py:462-465)
all_completed_and_success(rows) ==
    /\ ~\E row \in rows : row.status \in {"queued", "processing"}
    /\ \E row \in rows : row.status = "success"

\* check_cleanup: the rows of the video are read and the video is moved to the archive,
\* unless the move raises (worker.py:442-477)
CheckCleanup ==
    /\ \E video_path \in cleanup_tasks :
          LET rows == {history_rows[r] : r \in {q \in Runs :
                                                  history_rows[q].video_path = video_path}}
          IN /\ cleanup_tasks' = cleanup_tasks \ {video_path}
             /\ IF rows # {} /\ all_completed_and_success(rows)
                THEN \E moved \in BOOLEAN :
                        archived' = IF moved THEN archived \cup {video_path} ELSE archived
                ELSE UNCHANGED archived
    /\ UNCHANGED <<run_pos, run_slot, host_now, server_offset, last_run_minute,
                   cron_warnings, history_rows, post_tasks, transport, webhooks,
                   webhook_count>>
    /\ UNCHANGED engineVars

\* the videos of the rows
RowVideos == {"p_a1", "p_b1"}

\* what an earlier delivery has come to: accepted by the transport and waiting for its
\* webhook, or completed
EarlierStatuses == {"processing", "success", "failed"}

\* the first run has just finished: it has written a queued row for 06:00 Moscow time and
\* created the post_content task; every other row is of an earlier delivery for 10:00
\* that the transport accepted, with its caption saved
InitDelivery ==
    /\ InitEngine({DefaultInput})
    /\ run_pos = [r \in Runs |-> "finished"]
    /\ run_slot = [r \in Runs |-> IF r = 1 THEN 6 * 60 ELSE 10 * 60]
    /\ host_now = 0
    /\ server_offset = MskOffset
    /\ last_run_minute = None
    /\ cron_warnings = 0
    /\ \E v \in [Runs -> RowVideos] : \E s \in [Runs -> EarlierStatuses] :
          history_rows = [r \in Runs |->
                             [posted_at |-> posted_at(publish_at(run_slot[r])).wall,
                              status |-> IF r = 1 THEN "queued" ELSE s[r],
                              video_path |-> IF r = 1 THEN RunVideo ELSE v[r],
                              caption |-> r # 1]]
    /\ post_tasks = {Task(1, publish_at(run_slot[1]), "run")}
    /\ transport = {[id |-> r, via |-> "run", accepted |-> TRUE,
                     scheduled_date |-> schedule_param(publish_at(run_slot[r]), 0)] :
                       r \in Runs \ {1}}
    /\ webhooks = {}
    /\ webhook_count = 0
    /\ cleanup_tasks = {}
    /\ archived = {}

NextDelivery ==
    \/ PublisherDispatch
    \/ PostContent
    \/ PostContentFinish
    \/ WebhookReceive
    \/ WebhookApply
    \/ CheckCleanup

SpecDelivery == InitDelivery /\ [][NextDelivery]_vars

(***************************************************************************)
(* generate_daily_schedule around the call of generate_schedule            *)
(***************************************************************************)
\* str.lower() of a username or platform name as the transport spells it
LowerAtom(s) == CASE s = "U2" -> "u2"
                  [] s = "TikTok" -> "tiktok"
                  [] OTHER -> s

ApiProfile(u, socials) == [username |-> u, social_accounts |-> socials]

\* answers of get_profiles: both recipients connected; u1 absent; instagram of u1 in
\* need of re-authentication; tiktok of u1 not connected
ApiChoices ==
    { << ApiProfile("u1", ("instagram" :> "account" @@ "tiktok" :> "account")),
         ApiProfile("U2", ("TikTok" :> "account")) >>,
      << ApiProfile("U2", ("TikTok" :> "account")) >>,
      << ApiProfile("u1", ("instagram" :> "reauth_required" @@ "tiktok" :> "account")) >>,
      << ApiProfile("u1", ("instagram" :> "account" @@ "tiktok" :> "")) >> }

\* the platforms of an API profile that count as connected (worker.py:65-79)
ConnectedPlatforms(p) ==
    {LowerAtom(plat) : plat \in {q \in DOMAIN p.social_accounts :
                                    p.social_accounts[q] \notin {"", "reauth_required"}}}

\* username -> connected platforms; a later profile of the same name wins (worker.py:59-82)
valid_connections(api) ==
    [u \in {LowerAtom(api[i].username) : i \in {j \in 1..Len(api) : api[j].username # ""}} |->
        LET named == {i \in 1..Len(api) : LowerAtom(api[i].username) = u}
        IN ConnectedPlatforms(api[CHOOSE i \in named : \A j \in named : j <= i])]

\* the required platforms of a profile that are not connected (worker.py:95-99)
MissingPlatforms(p, connected) ==
    SelectSeq(p.platforms, LAMBDA req_platform : LowerAtom(req_platform) \notin connected)

\* validated_profiles (worker.py:85-106)
ValidateProfiles(api, active) ==
    SelectSeq(active, LAMBDA p :
        /\ LowerAtom(p.username) \in DOMAIN valid_connections(api)
        /\ MissingPlatforms(p, valid_connections(api)[LowerAtom(p.username)]) = << >>)

\* scheduled_date_str.replace('Z', '+00:00')
ReplaceZ(iso) == IF iso.suffix = "Z" THEN [iso EXCEPT !.suffix = "+00:00"] ELSE iso

\* the naive datetime the worker keeps of a scheduled post (worker.py:140-143)
ScheduledDt(post) ==
    LET scheduled_dt == fromisoformat(ReplaceZ(post.scheduled_date))
    IN IF scheduled_dt.tzinfo # None THEN replace_tzinfo(scheduled_dt, None) ELSE scheduled_dt

\* occupied_slots built from the scheduled posts (worker.py:135-144)
BuildOccupied(posts) ==
    [u \in {posts[i].profile_username : i \in 1..Len(posts)} |->
        LET mine == SelectSeq(posts, LAMBDA post : post.profile_username = u)
        IN [i \in 1..Len(mine) |-> ScheduledDt(mine[i]).wall]]

\* existing_counts built from the scheduled posts (worker.py:147-153)
BuildExisting(posts) ==
    LET KeyOf(post) == <<DateKey(ScheduledDt(post).wall), post.profile_username, post.platform>>
    IN [k \in {KeyOf(posts[i]) : i \in 1..Len(posts)} |->
           Cardinality({i \in 1..Len(posts) : KeyOf(posts[i]) = k})]

\* the posts pending at the transport: one on instagram for every listed time, which the
\* transport reports in UTC
ScheduledOf(occupied) ==
    IF "u1" \in DOMAIN occupied
    THEN [i \in 1..Len(occupied["u1"]) |->
             [profile_username |-> "u1", platform |-> "instagram",
              scheduled_date |-> [digits |-> occupied["u1"][i], suffix |-> "Z"]]]
    ELSE << >>

\* a delivery pending at 05:00 UTC with a minimum gap of 30 minutes
PendingInputs ==
    { [DefaultInput EXCEPT !.occupied = ("u1" :> <<5 * 60>>), !.gap = 30] }

\* profiles and scheduled posts are fetched, the profiles validated and the occupied
\* slots built (worker.py:50-161); when get_profiles raised the list is kept
WorkerFetch ==
    /\ pc = "fetch"
    /\ LET enabled == SelectSeq(profiles, LAMBDA p : p.enabled)
       IN validated_profiles' = IF api_profiles.fetched
                                THEN ValidateProfiles(api_profiles.list, enabled)
                                ELSE enabled
    /\ occupied_slots' = BuildOccupied(scheduled_posts)
    /\ caller_slots' = BuildOccupied(scheduled_posts)
    /\ existing_counts' = BuildExisting(scheduled_posts)
    /\ pc' = "start"
    /\ UNCHANGED <<config, videos, check_db_duplicates, force_limit, now_msk, brand_stats,
                   posting_history, db_answers, api_profiles, scheduled_posts, worker_rows,
                   hostVars, profiles>>
    /\ UNCHANGED <<active_profiles, posted_history_set, schedule, videos_by_theme,
                   profile_slots, day_index, current_day_start, current_day_end,
                   daily_profiles, profile_idx, profile_counts, last_brand_used_per_theme,
                   planned_counts, needed_posts, total_needed, attempts,
                   max_profile_attempts, used_video_md5s, used_video_profile_pairs,
                   select_call, weight_log, slot_call, db_queries>>

\* every assignment is stored as a queued row and a post_content task is created for it
\* (worker.py:168-204)
WorkerPersist ==
    /\ pc = "done"
    /\ worker_rows' =
          [i \in 1..Len(schedule) |->
              [profile_username |-> schedule[i].profile,
               platform |-> schedule[i].platform,
               video_path |-> schedule[i].video.path,
               status |-> "queued",
               posted_at |-> posted_at(isoformat([wall |-> schedule[i].publish_at,
                                                  tzinfo |-> 0])).wall]]
    /\ post_tasks' = post_tasks
          \cup {Task(i, isoformat([wall |-> schedule[i].publish_at, tzinfo |-> 0]), "run") :
                   i \in 1..Len(schedule)}
    /\ pc' = "persisted"
    /\ UNCHANGED <<config, videos, existing_counts, check_db_duplicates, force_limit,
                   now_msk, brand_stats, posting_history, caller_slots, db_answers,
                   api_profiles, scheduled_posts, validated_profiles, profiles,
                   occupied_slots>>
    /\ UNCHANGED <<run_pos, run_slot, host_now, server_offset, last_run_minute,
                   cron_warnings, history_rows, transport, deliveryVars>>
    /\ UNCHANGED <<active_profiles, posted_history_set, schedule, videos_by_theme,
                   profile_slots, day_index, current_day_start, current_day_end,
                   daily_profiles, profile_idx, profile_counts, last_brand_used_per_theme,
                   planned_counts, needed_posts, total_needed, attempts,
                   max_profile_attempts, used_video_md5s, used_video_profile_pairs,
                   select_call, weight_log, slot_call, db_queries>>

\* the transport's answers are varied for the default configuration
InitWorker ==
    /\ \E in \in Inputs \cup PendingInputs :
          /\ InitCall(in)
          /\ scheduled_posts = ScheduledOf(in.occupied)
          /\ api_profiles \in IF [in EXCEPT !.profiles = <<U1>>] = DefaultInput
                             THEN {[fetched |-> TRUE, list |-> l] : l \in ApiChoices}
                                  \cup {NotFetched}
                             ELSE {NotFetched}
    /\ occupied_slots = EmptyDict
    /\ caller_slots = EmptyDict
    /\ existing_counts = EmptyDict
    /\ validated_profiles = << >>
    /\ worker_rows = << >>
    /\ InitLocals
    /\ pc = "fetch"
    /\ HostIdle({0})

NextWorker == WorkerFetch \/ Next \/ WorkerPersist

SpecWorker == InitWorker /\ [][NextWorker]_vars

(***************************************************************************)
(* Views used by the properties                                            *)
(***************************************************************************)
\* the assignments the caller receives or will receive: none after an exception
Emitted == IF pc = "error" THEN << >> ELSE schedule

\* Moscow time of an assignment
MskTime(a) == a.publish_at + MskOffset

Usernames == {profiles[i].username : i \in 1..Len(profiles)}

ProfileOf(u) == profiles[CHOOSE i \in 1..Len(profiles) : profiles[i].username = u]

\* number of emitted assignments of a (recipient, platform, Moscow day)
EmittedCount(u, pl, day) ==
    Cardinality({i \in 1..Len(Emitted) :
                    /\ Emitted[i].profile = u
                    /\ Emitted[i].platform = pl
                    /\ DateKey(MskTime(Emitted[i])) = day})

EmittedDays == {DateKey(MskTime(Emitted[i])) : i \in 1..Len(Emitted)}

EmittedPlatforms == {Emitted[i].platform : i \in 1..Len(Emitted)}

(***************************************************************************)
(* C1  Capacity: for every recipient, platform and Moscow day the number   *)
(* of assignments of a run is at most the resolved daily limit, for every  *)
(* horizon and every time of day at which the run starts.                  *)
(***************************************************************************)
C1_Capacity ==
    \A u \in Usernames : \A pl \in EmittedPlatforms : \A day \in EmittedDays :
        EmittedCount(u, pl, day) <= get_profile_limit(ProfileOf(u), pl)

\* the same statement for the runs whose first day does not start after midnight
C1_CapacityUnlessLateStart ==
    (DateKey(DayStart(0)) = DateKey(now_msk) \/ DaysToGenerate = 1) => C1_Capacity

(***************************************************************************)
(* C2  Spacing: for every recipient, two assignments of different items    *)
(* of one run are at least minGap apart; only the assignments of one item  *)
(* on several platforms are exempt.                                        *)
(***************************************************************************)
C2_Spacing ==
    \A i, j \in 1..Len(Emitted) :
        (/\ Emitted[i].profile = Emitted[j].profile
         /\ Emitted[i].video # Emitted[j].video)
        => Abs(Emitted[i].publish_at - Emitted[j].publish_at) >= MinGap(config)

\* the content identity of an assignment: the md5, or the path when there is none
IdentityOf(a) == IF a.video.md5 # "" THEN a.video.md5 ELSE a.video.path

\* two assignments that one commit can have produced: one recipient, two
\* platforms, times within the jitter of each other
OneCommit(a, b) ==
    /\ a.profile = b.profile
    /\ a.platform # b.platform
    /\ Abs(a.publish_at - b.publish_at) <= JitterMax

(***************************************************************************)
(* C3  Uniqueness, strict mode, as stated: with reuse disabled no content  *)
(* identity appears in more than one assignment of the output.             *)
(***************************************************************************)
C3_IdentityInOneAssignment ==
    ~config.allowVideoReuse =>
        \A i, j \in 1..Len(Emitted) :
            IdentityOf(Emitted[i]) = IdentityOf(Emitted[j]) => i = j

(***************************************************************************)
(* C3  Uniqueness, strict mode, amended: with reuse disabled all the       *)
(* assignments that carry one content identity go to one recipient, on     *)
(* pairwise different platforms, within the jitter of each other.          *)
(***************************************************************************)
C3_IdentityInOneCommit ==
    ~config.allowVideoReuse =>
        \A i, j \in 1..Len(Emitted) :
            (i # j /\ IdentityOf(Emitted[i]) = IdentityOf(Emitted[j]))
            => OneCommit(Emitted[i], Emitted[j])

\* a finished strict run that gave one item to two platforms and left out
\* another item of the catalog that carries the same identity
C3_Witness ==
    /\ pc = "done"
    /\ ~config.allowVideoReuse
    /\ \E i, j \in 1..Len(schedule) :
          /\ i # j
          /\ IdentityOf(schedule[i]) = IdentityOf(schedule[j])
          /\ \E v \in Range(videos) :
                /\ v # schedule[i].video
                /\ v.md5 = schedule[i].video.md5
                /\ \A k \in 1..Len(schedule) : schedule[k].video # v

(***************************************************************************)
(* C4  Uniqueness, reuse mode, as stated: with reuse enabled no            *)
(* (identity, recipient) pair appears in two assignments of the output.    *)
(***************************************************************************)
C4_PairInOneAssignment ==
    config.allowVideoReuse =>
        \A i, j \in 1..Len(Emitted) :
            (/\ IdentityOf(Emitted[i]) = IdentityOf(Emitted[j])
             /\ Emitted[i].profile = Emitted[j].profile) => i = j

(***************************************************************************)
(* C4  Uniqueness, reuse mode, amended: with reuse enabled the assignments *)
(* of one (identity, recipient) pair are on pairwise different platforms   *)
(* and within the jitter of each other: the pair is committed once.        *)
(***************************************************************************)
C4_PairInOneCommit ==
    config.allowVideoReuse =>
        \A i, j \in 1..Len(Emitted) :
            (/\ i # j
             /\ IdentityOf(Emitted[i]) = IdentityOf(Emitted[j])
             /\ Emitted[i].profile = Emitted[j].profile)
            => OneCommit(Emitted[i], Emitted[j])

\* a finished reuse run in which two recipients got the same item and one of
\* them got it on two platforms
C4_Witness ==
    /\ pc = "done"
    /\ config.allowVideoReuse
    /\ \E i, j, k \in 1..Len(schedule) :
          /\ i # j
          /\ schedule[i].video = schedule[j].video
          /\ schedule[i].profile = schedule[j].profile
          /\ schedule[k].video = schedule[i].video
          /\ schedule[k].profile # schedule[i].profile

\* the (recipient, path) pairs of the history rows that are not failed
PreloadedHistory ==
    {<<h.profile_username, h.video_path>> : h \in {x \in posting_history : x.status # "failed"}}

(***************************************************************************)
(* C5  History respect: when the persisted-history check is on, no         *)
(* assignment has a (recipient, path) pair of the preloaded history, in    *)
(* strict mode and in reuse mode alike.                                    *)
(***************************************************************************)
C5_HistoryRespect ==
    check_db_duplicates =>
        \A i \in 1..Len(Emitted) :
            <<Emitted[i].profile, Emitted[i].video.path>> \notin PreloadedHistory

\* a finished reuse run with the check on that gave items to a recipient with
\* history, the item of its history row being in the catalog
C5_Witness ==
    /\ pc = "done"
    /\ check_db_duplicates
    /\ config.allowVideoReuse
    /\ \E i \in 1..Len(schedule) : \E h \in PreloadedHistory :
          /\ h[1] = schedule[i].profile
          /\ \E v \in Range(videos) : v.path = h[2]

(***************************************************************************)
(* C6  Idempotent top-up: with existing_counts holding what an earlier run *)
(* produced, for every recipient, platform and Moscow day the existing     *)
(* count plus the new assignments is at most the resolved limit; a triple  *)
(* already at its limit receives nothing.                                  *)
(***************************************************************************)
C6_TopUp ==
    \A u \in Usernames : \A pl \in EmittedPlatforms : \A day \in EmittedDays :
        \/ EmittedCount(u, pl, day) = 0
        \/ Get(existing_counts, <<day, u, pl>>, 0) + EmittedCount(u, pl, day)
               <= get_profile_limit(ProfileOf(u), pl)

(***************************************************************************)
(* C7  Quota monotonicity: over the successive calls of                    *)
(* select_brand_by_quota of one run, across all recipients and days, the   *)
(* weight computed for a brand never rises from one call to a later one.   *)
(***************************************************************************)
C7_WeightNeverRises ==
    [][\A k \in DOMAIN weight_log : weight_log'[k] <= weight_log[k]]_vars

\* the per-platform override of a recipient, None for a platform without one
OverrideOf(profile, platform) ==
    CASE platform = "instagram" -> profile.instagramLimit
      [] platform = "tiktok" -> profile.tiktokLimit
      [] platform = "youtube" -> profile.youtubeLimit
      [] OTHER -> None

(***************************************************************************)
(* C8  Zero override, as stated: a recipient whose override for a platform *)
(* is 0 receives no assignment on that platform, whatever the other        *)
(* arguments of the call are.                                              *)
(***************************************************************************)
C8_ZeroOverrideAlways ==
    \A i \in 1..Len(Emitted) :
        OverrideOf(ProfileOf(Emitted[i].profile), Emitted[i].platform) # 0

(***************************************************************************)
(* C8  Zero override, amended: in every call that passes no force_limit, a *)
(* recipient whose override for a platform is 0 receives no assignment on  *)
(* that platform, whatever the global default and the deprecated limit.    *)
(***************************************************************************)
C8_ZeroOverrideUnforced ==
    force_limit = None =>
        \A i \in 1..Len(Emitted) :
            OverrideOf(ProfileOf(Emitted[i].profile), Emitted[i].platform) # 0

\* a finished unforced run that served a recipient on one platform and not on
\* the platform whose override is 0 while the global default is positive
C8_Witness ==
    /\ pc = "done"
    /\ force_limit = None
    /\ \E i \in 1..Len(schedule) : \E pl \in KnownPlatforms :
          LET p == ProfileOf(schedule[i].profile)
          IN /\ OverrideOf(p, pl) = 0
             /\ pl \in Range(p.platforms)
             /\ config.limits[pl] > 0
             /\ schedule[i].platform # pl

\* the slots the engine committed for a recipient: those after the caller's
CommittedFrom(u) == Len(Get(caller_slots, u, << >>)) + 1

(***************************************************************************)
(* C9  Slot safety: a time returned by find_safe_slot is at least minGap   *)
(* from every slot of the list it was given; the list of a recipient is    *)
(* the caller's occupied slots followed by every slot committed earlier in *)
(* the run, so a committed slot keeps minGap from all the slots before it. *)
(***************************************************************************)
C9_SafeSlot ==
    /\ slot_call.result # None =>
          \A i \in 1..Len(slot_call.slots) :
              Abs(slot_call.slots[i] - slot_call.result) >= MinGap(config)
    /\ \A u \in DOMAIN profile_slots :
          LET ps == profile_slots[u]
              given == Get(caller_slots, u, << >>)
          IN /\ Len(ps) >= Len(given)
             /\ SubSeq(ps, 1, Len(given)) = given
             /\ \A k \in CommittedFrom(u)..Len(ps) :
                   /\ \A j \in 1..(k - 1) : Abs(ps[k] - ps[j]) >= MinGap(config)
                   /\ \E i \in 1..Len(schedule) :
                         schedule[i].profile = u /\ MskTime(schedule[i]) = ps[k]

\* the second commit of a recipient with a caller-supplied slot: the desired
\* time was taken and the returned time is a later one
C9_Witness ==
    /\ pc = "attempt"
    /\ slot_call.result # None
    /\ slot_call.result # slot_call.desired
    /\ \E u \in DOMAIN caller_slots :
          /\ caller_slots[u] # << >>
          /\ Len(profile_slots[u]) >= Len(caller_slots[u]) + 2
          /\ profile_slots[u][Len(profile_slots[u])] = slot_call.result

\* the weight of a candidate of the recorded call, spelled from its inputs
CallWeight(b) ==
    LET quota == QuotaOf(config, select_call.category, b)
        published == PublishedOf(brand_stats, select_call.category, b)
        planned == Get(select_call.planned, b, 0)
    IN IF quota - published - planned > 0 THEN quota - published - planned ELSE 0

\* quotas A 3, B 1, published A 1, B 1, candidates A and B
QuotaScenario ==
    /\ QuotaOf(config, CatShoes, BrandA) = 3
    /\ QuotaOf(config, CatShoes, BrandB) = 1
    /\ PublishedOf(brand_stats, CatShoes, BrandA) = 1
    /\ PublishedOf(brand_stats, CatShoes, BrandB) = 1
    /\ select_call.category = CatShoes
    /\ Range(select_call.available_brands) = {BrandA, BrandB}

(***************************************************************************)
(* C10  select_brand_by_quota returns a candidate of maximal weight        *)
(* max(0, quota - published - planned) whenever that maximum is positive;  *)
(* for A (quota 3, published 1) and B (quota 1, published 1) the first two *)
(* successive selections, planned counts updated in between, return A.     *)
(***************************************************************************)
C10_SelectsMaxWeight ==
    select_call.result # << >> =>
        /\ select_call.result \in Range(select_call.available_brands)
        /\ (\E b \in Range(select_call.available_brands) : CallWeight(b) > 0)
           => \A b \in Range(select_call.available_brands) :
                  CallWeight(b) <= CallWeight(select_call.result)
        /\ (QuotaScenario /\ select_call.planned \in {EmptyDict, (BrandA :> 1)})
           => select_call.result = BrandA

\* the second selection of the scenario, B listed first, returned A
C10_Witness ==
    /\ QuotaScenario
    /\ select_call.available_brands = <<BrandB, BrandA>>
    /\ select_call.planned = (BrandA :> 1)
    /\ attempts = 2
    /\ select_call.result = BrandA
    /\ planned_counts = (BrandA :> 2)

\* the limit of the stated resolution order: override, deprecated limit, global default
StatedLimit(profile, platform) ==
    IF OverrideOf(profile, platform) # None THEN OverrideOf(profile, platform)
    ELSE IF profile.limit # None THEN profile.limit
    ELSE IF platform \in KnownPlatforms THEN config.limits[platform]
    ELSE DefaultUnknownLimit

\* a step that computes the shortfall of the next profile of the day computes
\* it from the limit lim(profile, platform)
ShortfallUses(lim(_, _)) ==
    (pc = "profile" /\ profile_idx <= Len(daily_profiles)) =>
        LET profile == daily_profiles[profile_idx]
        IN \A pl \in Range(profile.platforms) :
              LET current_count == Get(profile_counts[profile.username], pl, 0)
              IN IF current_count < lim(profile, pl)
                 THEN \E k \in 1..Len(needed_posts') :
                         /\ needed_posts'[k].pl = pl
                         /\ needed_posts'[k].needed = lim(profile, pl) - current_count
                 ELSE \A k \in 1..Len(needed_posts') : needed_posts'[k].pl # pl

\* the limit of the stated order, unless the call passes a force_limit
StatedLimitUnlessForced(profile, platform) ==
    IF force_limit # None THEN force_limit ELSE StatedLimit(profile, platform)

(***************************************************************************)
(* C11  Limit resolution, as stated: the daily limit used for a            *)
(* (recipient, platform) pair is the platform override if set (0 counts),  *)
(* else the deprecated limit if set (0 counts), else the global default.   *)
(***************************************************************************)
C11_LimitOrderAlways == [][ShortfallUses(StatedLimit)]_vars

(***************************************************************************)
(* C11  Limit resolution, amended: the limit used is the force_limit of    *)
(* the call when one is passed; otherwise the platform override if set,    *)
(* else the deprecated limit if set (0 counts as set in both), else the    *)
(* global default of the platform, 1 for a platform without one.           *)
(***************************************************************************)
C11_LimitOrder == [][ShortfallUses(StatedLimitUnlessForced)]_vars

\* the shortfall of a recipient with an override of 2 and a deprecated limit of 0
\* was computed from the override, in a call without force_limit
C11_Witness ==
    /\ pc = "attempt"
    /\ attempts = 0
    /\ force_limit = None
    /\ CurProfile.tiktokLimit = 2
    /\ CurProfile.limit = 0
    /\ needed_posts = <<[pl |-> "tiktok", needed |-> 2]>>

\* a recipient the filter keeps: enabled, with a platform entry that is not blank
PassesFilter(profile) ==
    /\ profile.enabled
    /\ \E k \in 1..Len(profile.platforms) : profile.platforms[k] \notin {"", " "}

(***************************************************************************)
(* C12  Recipient filter: no assignment is emitted for a recipient that is *)
(* disabled or has no non-blank platform; when no recipient passes the     *)
(* filter the run returns an empty list.                                   *)
(***************************************************************************)
C12_OnlyFilteredRecipients ==
    /\ \A i \in 1..Len(schedule) : PassesFilter(ProfileOf(schedule[i].profile))
    /\ (\A k \in 1..Len(profiles) : ~PassesFilter(profiles[k]))
       => (pc \in {"start", "done"} /\ schedule = << >>)

\* a run over a disabled recipient and one with blank platforms only, with a
\* catalog that holds items of their category, has returned the empty list
C12_Witness ==
    /\ pc = "done"
    /\ schedule = << >>
    /\ \E k \in 1..Len(profiles) : ~profiles[k].enabled /\ profiles[k].platforms # << >>
    /\ \E k \in 1..Len(profiles) : profiles[k].enabled /\ ~PassesFilter(profiles[k])
    /\ \E v \in Range(videos) : extract_theme(config, v.path) = CatShoes

(***************************************************************************)
(* C13  Every item of an emitted assignment has a classified brand that    *)
(* matches a client of the registry, by normalized name or by the client's *)
(* pattern; an item whose brand matches no client is in no assignment.     *)
(***************************************************************************)
MatchesSomeClient(brand) ==
    \E k \in 1..Len(config.clients) :
        \/ normalize(config.clients[k].name) = normalize(brand)
        \/ /\ config.clients[k].regex \notin {<< >>, InvalidRegex}
           /\ IsSubstringCI(config.clients[k].regex, brand)

C13_BrandHasClient ==
    \A i \in 1..Len(schedule) : MatchesSomeClient(extract_brand(config, schedule[i].video.path))

\* a finished run that assigned an item while the catalog holds an item of a brand
\* without a client
C13_Witness ==
    /\ pc = "done"
    /\ schedule # << >>
    /\ \E k \in 1..Len(videos) :
          /\ videos[k].path # ""
          /\ ~MatchesSomeClient(extract_brand(config, videos[k].path))
          /\ extract_theme(config, videos[k].path) = extract_theme(config, schedule[1].video.path)

(***************************************************************************)
(* C14  No emitted assignment carries an item whose category or brand      *)
(* classifies as "unknown", whatever the categories of the recipients and  *)
(* the client registry are.                                                *)
(***************************************************************************)
ClassifiesUnknown(path) ==
    \/ extract_theme(config, path) = UNKNOWN
    \/ extract_brand(config, path) = UNKNOWN

C14_NoUnknownItem ==
    \A i \in 1..Len(Emitted) : ~ClassifiesUnknown(Emitted[i].video.path)

\* the same statement for a registry none of whose clients matches the word "unknown"
C14_NoUnknownItemUnlessClient ==
    ~has_ai_client(config.clients, UNKNOWN) => C14_NoUnknownItem

(***************************************************************************)
(* C15  If the quota source or the history source cannot be reached, the   *)
(* call ends in an error and the caller receives no assignments; a         *)
(* schedule is never returned that was computed without quota data read    *)
(* from the source.                                                        *)
(***************************************************************************)
\* number of slots the run has taken, one per committed item
RECURSIVE SlotsTaken(_)
SlotsTaken(users) ==
    IF users = {} THEN 0
    ELSE LET u == CHOOSE x \in users : TRUE
         IN Len(profile_slots[u]) - Len(Get(caller_slots, u, << >>)) + SlotsTaken(users \ {u})

\* a query was sent that the source did not answer
SourceUnreachable == db_answers # None /\ db_queries > db_answers

RECURSIVE InitialShortfall(_, _)
InitialShortfall(profile, pls) ==
    IF pls = {} THEN 0
    ELSE LET pl == CHOOSE x \in pls : TRUE
         IN Max(0, get_profile_limit(profile, pl)
                   - Get(existing_counts,
                         <<DateKey(current_day_start), profile.username, pl>>, 0))
            + InitialShortfall(profile, pls \ {pl})

(***************************************************************************)
(* C16  The call terminates for every finite input: for each recipient and *)
(* day the allocation loop runs at most 5 times the recipient's initial    *)
(* total shortfall, and when no recipient is eligible, the category has    *)
(* no pool, no eligible item is found or no free slot is found, the run    *)
(* goes on and returns normally with the assignments made so far.          *)
(***************************************************************************)
C16_LoopBudget ==
    pc = "attempt"
       => attempts <= AttemptFactor * InitialShortfall(CurProfile, Range(CurProfile.platforms))

\* an upper bound of the passes one recipient can take on one day, plus its two steps
RECURSIVE ProfileCost(_, _)
ProfileCost(profile, i) ==
    IF i > Len(profile.platforms) THEN 2
    ELSE AttemptFactor * Max(0, get_profile_limit(profile, profile.platforms[i]))
         + ProfileCost(profile, i + 1)

RECURSIVE CostFrom(_, _)
CostFrom(ps, k) == IF k > Len(ps) THEN 0 ELSE ProfileCost(ps[k], 1) + CostFrom(ps, k + 1)

DayCost == CostFrom(profiles, 1) + 2

\* a bound of the number of steps the call can still take
StepsLeft ==
    CASE pc = "start" -> DaysToGenerate * DayCost + 2
      [] pc = "day" -> (DaysToGenerate - day_index) * DayCost + 1
      [] pc = "profile" -> (DaysToGenerate - day_index - 1) * DayCost + 2
                           + CostFrom(daily_profiles, profile_idx)
      [] pc = "attempt" -> (DaysToGenerate - day_index - 1) * DayCost + 2
                           + CostFrom(daily_profiles, profile_idx + 1)
                           + (IF LoopRuns THEN max_profile_attempts - attempts ELSE 0) + 1
      [] OTHER -> 0

\* the only causes of an exception: a failing query, a quota stored as null, a platform
\* the counters do not know
ErrorCause ==
    \/ db_answers # None /\ db_queries >= db_answers
    \/ \E c \in DOMAIN config.brandQuotas :
          \E b \in DOMAIN config.brandQuotas[c] : config.brandQuotas[c][b] = None
    \/ \E k \in 1..Len(profiles) :
          \E i \in 1..Len(profiles[k].platforms) :
             profiles[k].platforms[i] \notin KnownPlatforms \cup {"", " "}

\* the rest of the statement: every step brings the call nearer to its end, the loop
\* stays within the budget the code computes, a step ends in an exception only for one
\* of the causes above, and the assignments made so far are kept
C16_TerminatesWithinCodeBudget ==
    [][/\ StepsLeft' < StepsLeft
       /\ StepsLeft' >= 0
       /\ attempts' <= max_profile_attempts'
       /\ pc' = "error" => ErrorCause
       /\ Len(schedule') >= Len(schedule)
       /\ SubSeq(schedule', 1, Len(schedule)) = schedule]_vars

\* the loop budget of a recipient whose platform list names no platform twice
C16_LoopBudgetUnlessDuplicate ==
    (pc = "attempt" /\ \A i, j \in 1..Len(CurProfile.platforms) :
                          i # j => CurProfile.platforms[i] # CurProfile.platforms[j])
       => attempts <= AttemptFactor * InitialShortfall(CurProfile, Range(CurProfile.platforms))

(***************************************************************************)
(* C17  At most one execution of generate_daily_schedule is in progress at *)
(* any time, whatever sequence of manual /api/run requests and             *)
(* cron-triggered starts occurs.                                           *)
(***************************************************************************)
InProgress == {r \in Runs : run_pos[r] \notin {"idle", "finished"}}

C17_SingleRun == Cardinality(InProgress) <= 1

\* no run is ever started by the cron loop: every execution comes from a request
C17_CronStartsNothing == [][last_run_minute' # last_run_minute => run_pos' = run_pos]_vars

(***************************************************************************)
(* C18  For every assignment, the scheduled time that post_content hands   *)
(* to the transport denotes the same instant as the scheduledAt emitted by *)
(* the engine (the Moscow-time slot expressed in UTC), both when the post  *)
(* is dispatched right after the run and when the background publisher     *)
(* dispatches it later from the stored posted_at.                          *)
(***************************************************************************)
\* the instant of the scheduledAt the engine emitted for the assignment of a run
ScheduledAt(r) == InstantOf(fromisoformat(publish_at(run_slot[r])))

C18_SameInstant ==
    \A x \in transport : x.scheduled_date # None => x.scheduled_date = ScheduledAt(x.id)

\* the scheduledAt of the engine is the instant of the Moscow-time slot
C18_EngineInstant ==
    \A r \in Runs : run_slot[r] # None => ScheduledAt(r) = run_slot[r] - MskOffset

\* every scheduled date handed to the transport is three hours before the scheduledAt
C18_ThreeHoursEarly ==
    \A x \in transport :
        x.scheduled_date # None => x.scheduled_date = ScheduledAt(x.id) - MskOffset

(***************************************************************************)
(* C19  Two category spellings or two brand spellings that normalize       *)
(* identically (case-folded, U+0451 folded, spaces removed) are one key:   *)
(* select_brand_by_quota reads the same configured quota and the same      *)
(* published count for both, and client matching and pool lookup accept    *)
(* both or neither.                                                        *)
(***************************************************************************)
\* the value a table keeps under the keys that normalize as category and brand do
ByNormalizedKey(table, category, brand) ==
    LET cs == {c \in DOMAIN table : normalize(c) = normalize(category)}
    IN IF cs = {} THEN 0
       ELSE LET c == CHOOSE x \in cs : TRUE
                bs == {b \in DOMAIN table[c] : normalize(b) = normalize(brand)}
            IN IF bs = {} THEN 0 ELSE table[c][CHOOSE x \in bs : TRUE]

\* every weight of the last selection was computed from the quota and the published
\* count kept under the normalized key
C19_QuotaByNormalizedKey ==
    \A b \in DOMAIN select_call.weights :
        select_call.weights[b]
           = Max(0, ByNormalizedKey(config.brandQuotas, select_call.category, b)
                    - ByNormalizedKey(brand_stats, select_call.category, b)
                    - Get(select_call.planned, b, 0))

\* the items in the pools or already assigned
Pooled ==
    UNION {UNION {Range(videos_by_theme[t][k].vids) : k \in 1..Len(videos_by_theme[t])} :
              t \in DOMAIN videos_by_theme}
    \cup {schedule[i].video : i \in 1..Len(schedule)}

\* an item whose brand folder normalizes as the name of a client does is classified
C19_ClientByNormalizedName ==
    (pc = "day" /\ day_index = 0)
       => \A k \in 1..Len(videos) :
             (/\ videos[k].path # ""
              /\ \E c \in 1..Len(config.clients) :
                    normalize(config.clients[c].name) = extract_brand(config, videos[k].path))
                => videos[k] \in Pooled

C19_OneKey == C19_QuotaByNormalizedKey /\ C19_ClientByNormalizedName

(***************************************************************************)
(* C20  If slot allocation fails for a chosen item, that attempt leaves    *)
(* the used-identity sets, the brand pools, the recipient's occupied       *)
(* slots, the per-platform counts and the output list unchanged, so the    *)
(* item stays selectable; an identity is recorded as used only together    *)
(* with an emitted assignment.                                             *)
(***************************************************************************)
\* a pass of the loop that found an item and got no slot for it
SlotFailure ==
    /\ pc = "attempt"
    /\ attempts' = attempts + 1
    /\ LoopRuns /\ ~LoopBreaks
    /\ EligibleVideos # {}
    /\ slot_call'.result = None
    /\ pc' = "attempt"

UsedWithAssignment ==
    /\ \A id \in used_video_md5s :
          \E i \in 1..Len(schedule) : VideoId(schedule[i].video) = id
    /\ \A pair \in used_video_profile_pairs :
          \E i \in 1..Len(schedule) :
             VideoId(schedule[i].video) = pair[1] /\ schedule[i].profile = pair[2]

C20_SlotFailureFrame ==
    [][/\ SlotFailure
          => /\ UNCHANGED <<used_video_md5s, used_video_profile_pairs, videos_by_theme,
                            profile_slots, occupied_slots, profile_counts, needed_posts,
                            total_needed, schedule>>
             /\ \A v \in EligibleVideos : IsUnique(v)' /\ ~InHistory(v)'
       /\ UsedWithAssignment']_vars

\* a slot search has just failed for a recipient that has got nothing yet, while an
\* unused item of the selected brand is in the pool
C20_Witness ==
    /\ pc = "attempt"
    /\ attempts >= 1
    /\ slot_call.desired # None
    /\ slot_call.result = None
    /\ schedule = << >>
    /\ used_video_md5s = {}
    /\ \E k \in 1..Len(ThemeBrands) : ThemeBrands[k].vids # << >>

\* the candidates of the recorded call that have the maximal weight, in list order
TopRanked ==
    SelectSeq(select_call.available_brands,
              LAMBDA b : \A c \in Range(select_call.available_brands) :
                            CallWeight(c) <= CallWeight(b))

\* the recorded call had a positive maximal weight shared by two candidates or more
TiedCall ==
    /\ select_call.result # << >>
    /\ Len(TopRanked) >= 2
    /\ CallWeight(TopRanked[1]) > 0

(***************************************************************************)
(* C21  When the maximal weight among the candidates is strictly positive  *)
(* and shared by at least two candidates, select_brand_by_quota does not   *)
(* return lastBrandUsed: if the first-ranked candidate equals              *)
(* lastBrandUsed the second-ranked one is returned, otherwise the          *)
(* first-ranked one.                                                       *)
(***************************************************************************)
C21_TieBreak ==
    TiedCall =>
        /\ select_call.result # select_call.last_brand
        /\ select_call.result = IF TopRanked[1] = select_call.last_brand
                                THEN TopRanked[2] ELSE TopRanked[1]

\* a tie whose first-ranked candidate was the last brand: the second-ranked was returned
C21_Witness ==
    /\ TiedCall
    /\ TopRanked[1] = select_call.last_brand
    /\ select_call.result = TopRanked[2]

\* ---------------------------------------------------------------------------------
\* C22
\* ---------------------------------------------------------------------------------

\* the weight the rule gives a candidate when a quota that is unset or null counts as 0
StatedWeight(b) ==
    LET q == QuotaOf(config, CanonicalTheme, b)
    IN Max(0, (IF q = None THEN 0 ELSE q) - PublishedOf(brand_stats, CanonicalTheme, b)
              - Get(planned_counts, b, 0))

\* the candidate after the last brand, wrapping; the first one when there is no last
\* brand or it is not a candidate
Successor(brands, last) ==
    IF \E i \in 1..Len(brands) : brands[i] = last
    THEN LET i == CHOOSE k \in 1..Len(brands) :
                      brands[k] = last /\ \A j \in 1..(k - 1) : brands[j] # last
         IN IF i = Len(brands) THEN brands[1] ELSE brands[i + 1]
    ELSE brands[1]

\* a selection is about to be made and no candidate has a positive weight
NoPositiveWeight ==
    /\ pc \in {"select", "attempt"}
    /\ LoopRuns
    /\ ~LoopBreaks
    /\ \A b \in Range(AvailableBrands) : StatedWeight(b) = 0

NullQuotaAmongCandidates ==
    \E b \in Range(AvailableBrands) : QuotaOf(config, CanonicalTheme, b) = None

\* C22: when no candidate has a positive weight, an unset or null quota included, the
\* selection does not fail and returns the candidate that follows the theme's last
\* brand (wrapping), or the first candidate when the last brand is absent or is not a
\* candidate.
C22_RoundRobinFallback ==
    [][NoPositiveWeight =>
          /\ pc' # "error"
          /\ attempts' = attempts + 1 =>
                select_call'.result = Successor(AvailableBrands, LastBrand)]_vars

\* what the code does: the same, provided no candidate's quota is stored as null
C22_RoundRobinUnlessNull ==
    [][NoPositiveWeight /\ ~NullQuotaAmongCandidates =>
          /\ pc' # "error"
          /\ attempts' = attempts + 1 =>
                select_call'.result = Successor(AvailableBrands, LastBrand)]_vars

\* a fallback selection that wrapped round from the last candidate to the first
C22_WrapReached ==
    /\ select_call.result # << >>
    /\ \A b \in Range(select_call.available_brands) : CallWeight(b) = 0
    /\ Len(select_call.available_brands) >= 2
    /\ select_call.last_brand = select_call.available_brands[Len(select_call.available_brands)]
    /\ select_call.result = select_call.available_brands[1]

\* a fallback selection whose last brand was not a candidate
C22_StrangerReached ==
    /\ select_call.result # << >>
    /\ \A b \in Range(select_call.available_brands) : CallWeight(b) = 0
    /\ select_call.last_brand # << >>
    /\ select_call.last_brand \notin Range(select_call.available_brands)
    /\ select_call.result = select_call.available_brands[1]

\* the selection failed on a null quota although no candidate had a positive weight
C22_NullQuotaFails ==
    /\ pc = "error"
    /\ NullQuotaAmongCandidates
    /\ \A b \in Range(AvailableBrands) : StatedWeight(b) = 0
    /\ db_answers = None

\* ---------------------------------------------------------------------------------
\* C23
\* ---------------------------------------------------------------------------------

\* the platforms of the current recipient that still have a positive shortfall
ShortPlatforms == {needed_posts[k].pl : k \in {j \in 1..Len(needed_posts) :
                                                  needed_posts[j].needed > 0}}

\* the assignments the step appended
Appended == SubSeq(schedule', Len(schedule) + 1, Len(schedule'))

\* a pass of the loop that committed and returned to the loop
SuccessfulCommit == pc = "attempt" /\ pc' = "attempt" /\ Len(schedule') > Len(schedule)

\* C23: a successful commit emits exactly one assignment for every platform of the
\* recipient whose shortfall is positive and none for any other; the first carries the
\* allocated slot and each further one the slot plus 2 to 5 minutes; each of these
\* platforms' shortfall drops by exactly one and no shortfall becomes negative.
C23_CommitFanOut ==
    [][SuccessfulCommit =>
          /\ Len(Appended) = Cardinality(ShortPlatforms)
          /\ {Appended[i].platform : i \in 1..Len(Appended)} = ShortPlatforms
          /\ \A i \in 1..Len(Appended) : Appended[i].profile = CurProfile.username
          /\ Appended[1].publish_at = slot_call'.result - MskOffset
          /\ slot_call'.result # None
          /\ \A i \in 2..Len(Appended) :
                Appended[i].publish_at - Appended[1].publish_at \in JitterMin..JitterMax
          /\ Len(needed_posts') = Len(needed_posts)
          /\ \A k \in 1..Len(needed_posts) :
                /\ needed_posts'[k].pl = needed_posts[k].pl
                /\ needed_posts'[k].needed =
                      IF needed_posts[k].pl \in ShortPlatforms
                      THEN needed_posts[k].needed - 1 ELSE needed_posts[k].needed
                /\ needed_posts'[k].needed >= 0]_vars

\* a commit to two platforms, the second one five minutes after the first, was followed
\* by a commit to the one platform that still had a shortfall
C23_Witness ==
    /\ pc = "attempt"
    /\ Len(schedule) = 3
    /\ schedule[1].profile = schedule[2].profile
    /\ schedule[1].platform # schedule[2].platform
    /\ schedule[2].publish_at = schedule[1].publish_at + JitterMax
    /\ schedule[3].profile = schedule[1].profile
    /\ schedule[3].platform = schedule[1].platform
    /\ schedule[3].publish_at = slot_call.result - MskOffset
    /\ \A k \in 1..Len(needed_posts) : needed_posts[k].needed = 0

\* ---------------------------------------------------------------------------------
\* C24
\* ---------------------------------------------------------------------------------

\* the step called find_safe_slot and it returned a time
SlotReturned == slot_call' # slot_call /\ slot_call'.result # None

\* C24: every time find_safe_slot returns, for a desired time drawn by
\* get_random_time_window, lies in the day's window: windowStart <= t < windowEnd.
C24_InsideWindow ==
    [][SlotReturned =>
          /\ current_day_start <= slot_call'.result
          /\ slot_call'.result < current_day_end]_vars

\* what the code does: the end of the window is itself a possible time
C24_InsideClosedWindow ==
    [][SlotReturned =>
          /\ current_day_start <= slot_call'.result
          /\ slot_call'.result <= current_day_end]_vars

\* a returned time that the search moved away from the desired time
C24_MovedReached ==
    /\ slot_call.result # None
    /\ slot_call.result # slot_call.desired
    /\ slot_call.result < current_day_end

\* the time returned is the end of the window
C24_EndReached ==
    /\ slot_call.result # None
    /\ slot_call.result = current_day_end

\* ---------------------------------------------------------------------------------
\* C25
\* ---------------------------------------------------------------------------------

\* the step called find_safe_slot
SlotCalled == slot_call' # slot_call

\* C25: find_safe_slot returns the desired time unchanged when it conflicts with no
\* slot of the list, tests at most 15 candidate times, and returns none only after 15
\* conflicting tests; the list it was given is not modified by it: the recipient's list
\* is afterwards the same list, followed by the returned time when the caller took it.
C25_BoundedSearch ==
    [][SlotCalled =>
          LET u == CurProfile.username
              given == profile_slots[u]
              call == slot_call'
          IN /\ call.slots = given
             /\ call.tests \in 1..15
             /\ ~SlotConflict(config, given, call.desired) =>
                   call.result = call.desired /\ call.tests = 1
             /\ SlotConflict(config, given, call.desired) => call.tests >= 2
             /\ call.result = None => call.tests = 15
             /\ call.result # None => ~SlotConflict(config, given, call.result)
             /\ profile_slots'[u] = IF call.result = None THEN given
                                    ELSE Append(given, call.result)]_vars

\* the search gave up after its last test
C25_GaveUp == pc = "slot" /\ slot_call.result = None /\ slot_call.tests = SlotTries

\* the search returned a time it found after the desired time had conflicted
C25_Witness ==
    /\ pc = "slot"
    /\ slot_call.result # None
    /\ slot_call.tests >= 2
    /\ SlotConflict(config, slot_call.slots, slot_call.desired)

\* the engine's view of the same call: the list a call was given is the recipient's
\* list, and it is afterwards that list, followed by the returned time on a commit
C25_ListKept ==
    [][SlotCalled /\ pc = "attempt" =>
          LET u == CurProfile.username
          IN /\ slot_call'.slots = profile_slots[u]
             /\ ~SlotConflict(config, profile_slots[u], slot_call'.desired) =>
                   slot_call'.result = slot_call'.desired
             /\ profile_slots'[u] = IF slot_call'.result = None THEN profile_slots[u]
                                    ELSE Append(profile_slots[u], slot_call'.result)]_vars

\* ---------------------------------------------------------------------------------
\* C26
\* ---------------------------------------------------------------------------------

\* C26: the assignments a step appends are one commit: one item, one recipient,
\* pairwise different platforms. With reuse disabled no earlier assignment of the run
\* carries the item's identity; with reuse enabled no earlier assignment carries it for
\* the same recipient. Hence no (identity, recipient, platform) triple occurs twice,
\* a strict run gives an identity to one recipient in one commit, and a reuse run
\* commits an identity at most once per recipient.
C26_CommittedOnce ==
    [][Len(schedule') > Len(schedule) =>
          /\ SubSeq(schedule', 1, Len(schedule)) = schedule
          /\ \A i, j \in 1..Len(Appended) :
                /\ Appended[i].video = Appended[j].video
                /\ Appended[i].profile = Appended[j].profile
                /\ i # j => Appended[i].platform # Appended[j].platform
          /\ \A k \in 1..Len(schedule) :
                IdentityOf(schedule[k]) = IdentityOf(Appended[1]) =>
                   /\ config.allowVideoReuse
                   /\ schedule[k].profile # Appended[1].profile]_vars

\* the same as a property of the output: no triple occurs in two assignments
C26_NoTripleTwice ==
    \A i, j \in 1..Len(schedule) :
        (/\ IdentityOf(schedule[i]) = IdentityOf(schedule[j])
         /\ schedule[i].profile = schedule[j].profile
         /\ schedule[i].platform = schedule[j].platform) => i = j

\* a finished reuse run that gave one identity to two recipients, to one of them on
\* two platforms, and another identity to the first of them
C26_Witness ==
    /\ pc = "done"
    /\ config.allowVideoReuse
    /\ \E i, j, k, l \in 1..Len(schedule) :
          /\ IdentityOf(schedule[i]) = IdentityOf(schedule[j])
          /\ schedule[i].profile # schedule[j].profile
          /\ IdentityOf(schedule[k]) = IdentityOf(schedule[i])
          /\ schedule[k].profile = schedule[i].profile
          /\ schedule[k].platform # schedule[i].platform
          /\ schedule[l].profile = schedule[i].profile
          /\ IdentityOf(schedule[l]) # IdentityOf(schedule[i])

\* a finished strict run in which two items of the catalog carried one identity and
\* one of them was committed to two platforms
C26_StrictReached ==
    /\ pc = "done"
    /\ ~config.allowVideoReuse
    /\ \E i, j \in 1..Len(schedule) :
          /\ i # j
          /\ schedule[i].video = schedule[j].video
          /\ \E v \in Range(videos) : v # schedule[i].video /\ VideoId(v) = IdentityOf(schedule[i])

\* ---------------------------------------------------------------------------------
\* C27
\* ---------------------------------------------------------------------------------

\* the step is a step of generate_schedule
RunStep ==
    \/ pc' # pc
    \/ attempts' # attempts
    \/ profile_idx' # profile_idx
    \/ planned_counts' # planned_counts
    \/ schedule' # schedule

\* the published count of every (category, brand) is the same after the step, except
\* that the one of (category, brand) is one more
OneMorePublished(category, brand) ==
    \A c \in (DOMAIN brand_stats) \cup (DOMAIN brand_stats') \cup {category} :
       \A b \in (DOMAIN Get(brand_stats, c, EmptyDict))
                \cup (DOMAIN Get(brand_stats', c, EmptyDict)) \cup {brand} :
          PublishedOf(brand_stats', c, b) =
             PublishedOf(brand_stats, c, b) + (IF c = category /\ b = brand THEN 1 ELSE 0)

\* C27: a step of generate_schedule leaves the BrandStats rows as they are: of the
\* quota state only the planned ledger changes. The rows change only when a pending
\* post is reported as delivered: its status becomes success and the published count
\* of its (category, brand) grows by one.
C27_StatsFrame ==
    [][/\ RunStep => brand_stats' = brand_stats
       /\ brand_stats' # brand_stats =>
             \E row \in posting_history :
                /\ Pending(row)
                /\ [row EXCEPT !.status = "success"] \in posting_history'
                /\ OneMorePublished(utils_extract_theme(config, row.video_path),
                                    utils_extract_brand(row.video_path))]_vars

\* a run that has planned a brand is in progress and a delivery has been counted
C27_Witness ==
    /\ pc = "attempt"
    /\ planned_counts # EmptyDict
    /\ \E row \in posting_history :
          /\ row.status = "success"
          /\ [row EXCEPT !.status = "queued"] \in UNION HistoryChoices
          /\ PublishedOf(brand_stats, utils_extract_theme(config, row.video_path),
                         utils_extract_brand(row.video_path))
                = PublishedOf(DefaultInput.quota.stats,
                              utils_extract_theme(config, row.video_path),
                              utils_extract_brand(row.video_path)) + 1

\* ---------------------------------------------------------------------------------
\* C28
\* ---------------------------------------------------------------------------------

\* C28: generate_schedule leaves the recipients passed to it, their platform lists
\* included, and the catalog items passed to it unchanged.
C28_ArgumentsUnchanged ==
    [][profiles' = profiles /\ videos' = videos]_vars

\* what the code does: the catalog is left alone, and a recipient is changed only by the
\* filter, which replaces the platform list of an active recipient by its non-blank
\* entries
C28_OnlyPlatformsCleaned ==
    [][/\ videos' = videos
       /\ Len(profiles') = Len(profiles)
       /\ \A i \in 1..Len(profiles) :
             profiles'[i] # profiles[i] =>
                /\ pc = "start"
                /\ IsActive(profiles[i])
                /\ profiles'[i] = [profiles[i] EXCEPT !.platforms = ValidPlatforms(profiles[i])]]_vars

\* a strict run has taken an item out of its pools and the catalog still holds it
C28_PoolShrunk ==
    /\ pc = "attempt"
    /\ ~config.allowVideoReuse
    /\ \E i \in 1..Len(schedule) :
          /\ schedule[i].video \in Range(videos)
          /\ \A t \in DOMAIN videos_by_theme : \A k \in 1..Len(videos_by_theme[t]) :
                schedule[i].video \notin Range(videos_by_theme[t][k].vids)

\* ---------------------------------------------------------------------------------
\* C29
\* ---------------------------------------------------------------------------------

\* a path of at least three segments none of which is an anchor folder
NoAnchor(path) ==
    /\ path \in DOMAIN PathSegments
    /\ Len(PathParts(path)) >= 3
    /\ \A i \in 1..Len(PathParts(path)) : LowerText(PathParts(path)[i]) \notin AnchorNames

FromEnd(path, k) == PathParts(path)[Len(PathParts(path)) + 1 - k]

\* C29: an item whose path has no anchor folder is classified by position from the
\* end of the path: its category is the normalized third-from-last segment and its
\* brand the normalized second-from-last segment.
C29_PositionalFallback ==
    \A t \in DOMAIN videos_by_theme : \A k \in 1..Len(videos_by_theme[t]) :
       \A i \in 1..Len(videos_by_theme[t][k].vids) :
          LET v == videos_by_theme[t][k].vids[i]
          IN NoAnchor(v.path) =>
                /\ t = normalize(FromEnd(v.path, 3))
                /\ videos_by_theme[t][k].brand = normalize(FromEnd(v.path, 2))

\* what the code does: without an anchor both the category and the brand are "unknown"
C29_UnknownWithoutAnchor ==
    /\ \A t \in DOMAIN videos_by_theme : \A k \in 1..Len(videos_by_theme[t]) :
          \A i \in 1..Len(videos_by_theme[t][k].vids) :
             NoAnchor(videos_by_theme[t][k].vids[i].path) =>
                t = UNKNOWN /\ videos_by_theme[t][k].brand = UNKNOWN
    /\ \A i \in 1..Len(videos) :
          NoAnchor(videos[i].path) =>
             /\ extract_theme(config, videos[i].path) = UNKNOWN
             /\ extract_brand(config, videos[i].path) = UNKNOWN

\* an item without an anchor is in the pools, under the category and brand "unknown"
C29_UnknownReached ==
    /\ UNKNOWN \in DOMAIN videos_by_theme
    /\ \E k \in 1..Len(videos_by_theme[UNKNOWN]) :
          /\ videos_by_theme[UNKNOWN][k].brand = UNKNOWN
          /\ \E i \in 1..Len(videos_by_theme[UNKNOWN][k].vids) :
                /\ NoAnchor(videos_by_theme[UNKNOWN][k].vids[i].path)
                /\ normalize(FromEnd(videos_by_theme[UNKNOWN][k].vids[i].path, 3)) = CatShoes

\* ---------------------------------------------------------------------------------
\* C30
\* ---------------------------------------------------------------------------------

\* a path with an anchor folder and at least three segments after it
AnchoredDeep(path) ==
    /\ path \in DOMAIN PathSegments
    /\ AnchorIndex(PathParts(path)) # 0
    /\ AnchorIndex(PathParts(path)) + 3 <= Len(PathParts(path))

After(path, k) == PathParts(path)[AnchorIndex(PathParts(path)) + k]

\* the segment the rule takes the brand from
BrandSegment(path) ==
    IF Contains(After(path, 3), ".") THEN After(path, 2) ELSE After(path, 3)

\* the brand a segment stands for: the client it matches, or its own normalized name
BrandFrom(segment) ==
    LET clean == CleanCandidate(segment)
        k == ClientIndex(config.clients, clean)
    IN IF k # 0 THEN normalize(config.clients[k].name) ELSE normalize(clean)

\* C30: for a path with an anchor the brand comes from the segment three positions
\* after the first anchor, or, when that segment contains a dot, from the segment two
\* positions after it; the brand returned is never a segment that contains a dot.
C30_BrandSegment ==
    pc # "start" =>
       \A i \in 1..Len(videos) :
          AnchoredDeep(videos[i].path) =>
             /\ extract_brand(config, videos[i].path) = BrandFrom(BrandSegment(videos[i].path))
             /\ ~Contains(extract_brand(config, videos[i].path), ".")

\* where the code agrees: the segment three after the anchor has no dot, and it matches a
\* client or the segment two after the anchor matches none
C30_BrandSegmentWhenThird ==
    pc # "start" =>
       \A i \in 1..Len(videos) :
          LET path == videos[i].path
          IN (/\ AnchoredDeep(path)
              /\ ~Contains(After(path, 3), ".")
              /\ \/ ClientIndex(config.clients, CleanCandidate(After(path, 3))) # 0
                 \/ ClientIndex(config.clients, CleanCandidate(After(path, 2))) = 0)
             => /\ extract_brand(config, path) = BrandFrom(After(path, 3))
                /\ ~Contains(extract_brand(config, path), ".")

\* the brand of an item is the name of its file
C30_DottedBrand ==
    /\ pc # "start"
    /\ \E i \in 1..Len(videos) :
          /\ AnchoredDeep(videos[i].path)
          /\ Contains(After(videos[i].path, 3), ".")
          /\ extract_brand(config, videos[i].path) = normalize(After(videos[i].path, 3))

\* the brand of an item is the client of the folder two after the anchor although the
\* folder three after the anchor has no dot
C30_SecondFolderBrand ==
    /\ pc # "start"
    /\ \E i \in 1..Len(videos) :
          /\ AnchoredDeep(videos[i].path)
          /\ ~Contains(After(videos[i].path, 3), ".")
          /\ extract_brand(config, videos[i].path) = BrandFrom(After(videos[i].path, 2))
          /\ extract_brand(config, videos[i].path) # BrandFrom(After(videos[i].path, 3))

\* ---------------------------------------------------------------------------------
\* C31
\* ---------------------------------------------------------------------------------

\* a path with an anchor folder and a category folder two positions after it
HasCategoryFolder(path) ==
    /\ path \in DOMAIN PathSegments
    /\ AnchorIndex(PathParts(path)) # 0
    /\ AnchorIndex(PathParts(path)) + 2 <= Len(PathParts(path))
    /\ Strip(SplitFirst(After(path, 2), "(")) # << >>

\* the category folder of an item without its parenthetical suffix
CategoryFolder(path) == Strip(SplitFirst(After(path, 2), "("))

\* the entries of the alias table a name belongs to, as canonical name or as alias
EntriesOf(name) ==
    {k \in 1..Len(config.themeAliases) :
        \/ normalize(config.themeAliases[k].canonical) = normalize(name)
        \/ \E a \in 1..Len(config.themeAliases[k].aliases) :
              normalize(config.themeAliases[k].aliases[a]) = normalize(name)}

SameCategory(folder, affinity) ==
    \/ normalize(folder) = normalize(affinity)
    \/ EntriesOf(folder) \cap EntriesOf(affinity) # {}

\* the items of the pool of a category key
PoolOf(key) ==
    UNION {Range(Get(videos_by_theme, key, << >>)[k].vids) :
              k \in 1..Len(Get(videos_by_theme, key, << >>))}

\* C31: when an item's category folder and a recipient's category normalize alike or
\* belong to one entry of the alias table, the item's key and the recipient's key are
\* the same, it is the canonical key of the entry when there is one, and the pool the
\* recipient draws from holds the item if the grouping kept it.
C31_SameCategoryKey ==
    pc # "start" =>
       \A i \in 1..Len(videos) : \A p \in 1..Len(active_profiles) :
          LET path == videos[i].path
              affinity == active_profiles[p].theme_key
              key == normalize_theme_key(config, affinity)
          IN (HasCategoryFolder(path) /\ SameCategory(CategoryFolder(path), affinity)) =>
                /\ extract_theme(config, path) = key
                /\ \A k \in EntriesOf(affinity) : key = config.themeAliases[k].canonical
                /\ (pc = "day" /\ day_index = 0
                    /\ has_ai_client(config.clients, extract_brand(config, path)))
                   => videos[i] \in PoolOf(key)

\* after the grouping, a recipient named by an alias finds in its pool an item whose
\* folder carries another name of the same entry and a parenthetical suffix
C31_Witness ==
    /\ pc = "day"
    /\ day_index = 0
    /\ \E i \in 1..Len(videos) : \E p \in 1..Len(active_profiles) :
          /\ HasCategoryFolder(videos[i].path)
          /\ Contains(After(videos[i].path, 2), "(")
          /\ normalize(CategoryFolder(videos[i].path)) # normalize(active_profiles[p].theme_key)
          /\ SameCategory(CategoryFolder(videos[i].path), active_profiles[p].theme_key)
          /\ videos[i] \in PoolOf(normalize_theme_key(config, active_profiles[p].theme_key))

(***************************************************************************)
(* C32  A run that fetched the transport's profile list gives no           *)
(*      assignment and writes no PostingHistory row for a configured       *)
(*      profile that is absent from the list or has a configured platform  *)
(*      that is not connected there or needs re-authentication.            *)
(***************************************************************************)
Rejected(p) ==
    /\ api_profiles.fetched
    /\ \/ LowerAtom(p.username) \notin DOMAIN valid_connections(api_profiles.list)
       \/ MissingPlatforms(p, valid_connections(api_profiles.list)[LowerAtom(p.username)])
             # << >>

C32_OnlyConnected ==
    pc # "fetch" =>
       \A i \in 1..Len(profiles) :
          Rejected(profiles[i]) =>
             /\ \A k \in 1..Len(Emitted) : Emitted[k].profile # profiles[i].username
             /\ \A k \in 1..Len(worker_rows) :
                   worker_rows[k].profile_username # profiles[i].username

\* the validation has dropped the profile that then receives an assignment
C32_ValidatedOut ==
    /\ pc = "persisted"
    /\ api_profiles.fetched
    /\ validated_profiles = << >>
    /\ worker_rows # << >>

\* a profile the validation accepted has its rows written
C32_AcceptedReached ==
    /\ pc = "persisted"
    /\ api_profiles.fetched
    /\ validated_profiles # << >>
    /\ worker_rows # << >>

(***************************************************************************)
(* C40  Every slot a run of generate_daily_schedule commits for a          *)
(*      recipient is at least the minimum gap away, in elapsed time, from  *)
(*      every delivery that was pending at the transport for that          *)
(*      recipient when the run started.                                    *)
(***************************************************************************)
\* the instant, in UTC minutes, at which the transport will make a pending delivery
PendingInstant(post) == InstantOf(fromisoformat(ReplaceZ(post.scheduled_date)))

C40_GapFromPending ==
    \A k \in 1..Len(Emitted) : \A j \in 1..Len(scheduled_posts) :
       scheduled_posts[j].profile_username = Emitted[k].profile =>
          Abs(Emitted[k].publish_at - PendingInstant(scheduled_posts[j])) >= MinGap(config)

\* the engine moved a slot away from an occupied one it was given by the worker
C40_MovedReached ==
    /\ pc = "persisted"
    /\ config.minIntervalMinutes # 0
    /\ scheduled_posts # << >>
    /\ \E k \in 1..Len(schedule) :
          /\ schedule[k].profile = "u1"
          /\ MskTime(schedule[k]) # DayStart(0)
          /\ Abs(MskTime(schedule[k]) - occupied_slots["u1"][1]) >= MinGap(config)

(***************************************************************************)
(* C33  Every PostingHistory row leads to at most one call of the          *)
(*      transport's publish operation, however the post_content tasks      *)
(*      created by the run and the polling of the background publisher     *)
(*      interleave.                                                        *)
(***************************************************************************)
PublishCalls(r) == {x \in transport : x.id = r}

C33_PublishedOnce == \A r \in Runs : Cardinality(PublishCalls(r)) <= 1

\* the publisher took a row whose task of the run had not started yet
C33_BothTasks ==
    \E r \in Runs : \E a, b \in post_tasks :
       /\ a.id = r /\ b.id = r
       /\ a.via = "run" /\ b.via = "publisher"
       /\ a.pos = "start"

(***************************************************************************)
(* C34  A PostingHistory row whose status is success or failed keeps that  *)
(*      status in every later step, however completion webhooks and the    *)
(*      steps of post_content interleave.                                  *)
(***************************************************************************)
C34_FinalStays ==
    [][\A r \in Runs :
          history_rows[r].status \in FinalStatuses =>
             history_rows'[r].status = history_rows[r].status]_vars

\* a webhook found its row in a final status and left it alone
C34_DuplicateIgnored ==
    /\ webhook_count = MaxWebhooks
    /\ webhooks = {}
    /\ \E r \in Runs : history_rows[r].status = "success"

(***************************************************************************)
(* C35  The published count of a brand grows by one for a post that        *)
(*      reaches success and never a second time for the same post, however *)
(*      concurrent or duplicate webhooks interleave.                       *)
(***************************************************************************)
\* the rows a step takes to success
NewlySucceeded ==
    {r \in Runs : history_rows[r].status # "success" /\ history_rows'[r].status = "success"}

\* published counts summed over the rows of BrandStats
TotalPublished(stats) ==
    LET keys == UNION {{<<c, b>> : b \in DOMAIN stats[c]} : c \in DOMAIN stats}
        Sum[S \in SUBSET keys] ==
           IF S = {} THEN 0
           ELSE LET k == CHOOSE x \in S : TRUE
                IN stats[k[1]][k[2]] + Sum[S \ {k}]
    IN Sum[keys]

C35_CountedOnce ==
    [][TotalPublished(brand_stats') = TotalPublished(brand_stats) + Cardinality(NewlySucceeded)]_vars

\* a success was counted
C35_Counted ==
    /\ TotalPublished(brand_stats) = TotalPublished(DefaultInput.quota.stats) + 1
    /\ \E r \in Runs : history_rows[r].status = "success"

(***************************************************************************)
(* C36  check_cleanup moves a video to the archive only when no row of the *)
(*      video is queued or processing and at least one is success; with a  *)
(*      pending row, or with failed rows only, the video is not moved.     *)
(***************************************************************************)
RowsOf(video_path) ==
    {history_rows[r] : r \in {q \in Runs : history_rows[q].video_path = video_path}}

C36_ArchiveWhenDone ==
    [][\A v \in RowVideos :
          (v \notin archived /\ v \in archived') =>
             /\ \A row \in RowsOf(v) : row.status \notin {"queued", "processing"}
             /\ \E row \in RowsOf(v) : row.status = "success"]_vars

\* the video of the new row was moved after the row had come to success
C36_Witness ==
    /\ RunVideo \in archived
    /\ history_rows[1].status = "success"
    /\ \A row \in RowsOf(RunVideo) : row.status \in FinalStatuses

\* check_cleanup ran after the success of the new row and left the video in place,
\* another row of the video being pending
C36_HeldBack ==
    /\ history_rows[1].status = "success"
    /\ cleanup_tasks = {}
    /\ webhooks = {}
    /\ archived = {}
    /\ \E row \in RowsOf(RunVideo) : row.status = "processing"

(***************************************************************************)
(* C37  For every item of a pool, a successful delivery recorded by        *)
(*      increment_brand_stats raises by one exactly the published count    *)
(*      that select_brand_by_quota reads for the item's category and       *)
(*      brand, also when the brand was matched to a client by its regex.   *)
(***************************************************************************)
C37_SameStatsKey ==
    \A theme \in DOMAIN videos_by_theme :
       \A k \in 1..Len(videos_by_theme[theme]) :
          \A v \in Range(videos_by_theme[theme][k].vids) :
             LET brand == videos_by_theme[theme][k].brand
             IN PublishedOf(increment_brand_stats(config, brand_stats, v.path), theme, brand)
                   = PublishedOf(brand_stats, theme, brand) + 1

\* an item whose brand folder bears the name of its client is counted where it is read
C37_NamedReached ==
    /\ pc = "day"
    /\ \E theme \in DOMAIN videos_by_theme :
          \E k \in 1..Len(videos_by_theme[theme]) :
             \E v \in Range(videos_by_theme[theme][k].vids) :
                /\ utils_extract_brand(v.path) = videos_by_theme[theme][k].brand
                /\ utils_extract_theme(config, v.path) = theme

(***************************************************************************)
(* C38  Whatever non-blank platform names the recipients carry,            *)
(*      generate_schedule completes: a call ends in an exception only when *)
(*      a query failed or a quota is stored as null, never because of a    *)
(*      platform name the engine does not know.                            *)
(***************************************************************************)
OtherErrorCause ==
    \/ db_answers # None /\ db_queries >= db_answers
    \/ \E c \in DOMAIN config.brandQuotas :
          \E b \in DOMAIN config.brandQuotas[c] : config.brandQuotas[c][b] = None

C38_UnknownPlatformCompletes == pc = "error" => OtherErrorCause

(***************************************************************************)
(* C39  During a day pass plannedCounts[brand] is the number of items of   *)
(*      that brand committed so far in the pass, and an attempt that ends  *)
(*      without a commit leaves plannedCounts as it was.                   *)
(***************************************************************************)
InPass == pc \in {"profile", "attempt"}

\* the assignments of a recipient and platform emitted in the current pass: the rise of
\* profile_counts over its seed for the day (lines 145-153 and 333)
EmittedInPass(u, pl) ==
    profile_counts[u][pl] - Get(existing_counts, <<DateKey(current_day_start), u, pl>>, 0)

\* schedule only grows at its end, so the assignments of the pass are the last ones of
\* their recipient and platform
InCurrentPass(k) ==
    /\ schedule[k].profile \in DOMAIN profile_counts
    /\ schedule[k].platform \in KnownPlatforms
    /\ Cardinality({j \in (k + 1)..Len(schedule) :
                       /\ schedule[j].profile = schedule[k].profile
                       /\ schedule[j].platform = schedule[k].platform})
          < EmittedInPass(schedule[k].profile, schedule[k].platform)

\* the items of a brand committed in the current pass, one per video and recipient
CommittedOf(brand) ==
    {<<schedule[i].video.path, schedule[i].profile>> :
        i \in {k \in 1..Len(schedule) :
                  /\ InCurrentPass(k)
                  /\ extract_brand(config, schedule[k].video.path) = brand}}

PassBrands ==
    (DOMAIN planned_counts)
       \cup {extract_brand(config, schedule[i].video.path) : i \in 1..Len(schedule)}

C39_PlannedIsCommitted ==
    InPass => \A brand \in PassBrands :
                 Get(planned_counts, brand, 0) = Cardinality(CommittedOf(brand))

\* what the code does: plannedCounts[brand] counts the selections of the brand, so it is
\* never below the number of its committed items; every attempt that reaches the
\* selection enters the selected brand once, with or without a commit, and an attempt
\* that ends before the selection enters nothing
C39_PlannedCountsSelections ==
    /\ [](InPass => \A brand \in PassBrands :
                       Get(planned_counts, brand, 0) >= Cardinality(CommittedOf(brand)))
    /\ [][(pc = "attempt" /\ attempts' = attempts + 1) =>
             IF LoopBreaks \/ SelectRaises(config, CanonicalTheme, AvailableBrands)
             THEN planned_counts' = planned_counts
             ELSE planned_counts' = Put(planned_counts, SelectedBrand,
                                        Get(planned_counts, SelectedBrand, 0) + 1)]_vars

\* a selection that ended without a commit is in the ledger
C39_Witness ==
    /\ pc = "attempt"
    /\ schedule # << >>
    /\ \E brand \in DOMAIN planned_counts :
          /\ Cardinality(CommittedOf(brand)) >= 1
          /\ planned_counts[brand] > Cardinality(CommittedOf(brand))
====
